---- MODULE Spec2Model ----
(***************************************************************************)
(* State-machine model of the sap_cloud drive backend: the Auth Manager    *)
(* (challenge-response, tokens, authorized keys), the Metadata Store's     *)
(* auth tables, the HTTP access gate of Server::setup_routes, and the      *)
(* FileService coordinator over the content store and the files table.     *)
(*                                                                         *)
(* Request threads execute one request at a time; every database statement *)
(* and every content-store call is one step, so that statements of         *)
(* different threads interleave when the server runs multithreaded.        *)
(***************************************************************************)
EXTENDS Integers, Sequences, FiniteSets, TLC

\* ------------------------------------------------------------------ bounds
\* last second of the clock in the auth specifications
MaxSeconds == 2
\* number of challenges generate_challenge hands out
MaxChallenges == 1
\* number of tokens generate_token hands out
MaxTokens == 2
\* AuthConfig lifetimes, scaled down to the clock's range (seconds)
challenge_expiry == 1
token_expiry == 1

\* last millisecond of the clock in the file specification
MaxMs == 2

\* number of ids generate_uuid hands out
MaxNotes == 1

\* number of failing content-store and database calls the note service meets
MaxFaults == 1

\* sync::now_ms() / 1000 : milliseconds per second
MsPerSec == 1000

\* request threads of the HTTP server
Threads == {"t1", "t2"}
MainThread == "t1"
\* public keys a client may present; "bad" is not a parseable key
Keys == {"k1", "k2", "bad"}
\* contents the authorized_keys file may have at a (re)load
KeyFiles == {{"k1", "bad"}, {"k2"}}
\* outcomes of reading that file: its keys, or an error
KeyReads == {[ok |-> TRUE, value |-> f] : f \in KeyFiles} \cup {[ok |-> FALSE, value |-> {}]}
Signatures == {"good", "forged"}
Challenges == 1..MaxChallenges
\* token 0 is a token generate_token never produced
Tokens == 0..MaxTokens
\* an Authorization header as its chunks: the scheme prefix, then the rest
Headers == {<<>>, <<"Bearer ">>, <<"Basic ", 1>>} \cup {<<"Bearer ", tok>> : tok \in Tokens}
\* the routes Server::setup_routes registers
AuthRoutes == {"POST /api/v1/auth/challenge", "POST /api/v1/auth/verify"}
ServiceRoutes == {"GET /api/v1/sync/state",
                  "GET /api/v1/files", "PUT /api/v1/files", "DELETE /api/v1/files",
                  "GET /api/v1/notes", "POST /api/v1/notes", "PUT /api/v1/notes",
                  "DELETE /api/v1/notes", "GET /api/v1/notes/tags",
                  "GET /api/v1/notes/search"}

\* relative paths below files_root that requests name
Paths == {"docs/a.txt"}
\* files already below files_root when the server is constructed
FoundFiles == {[path |-> "old/c.txt", content |-> <<99>>, mtime |-> 0]}
\* every path of the content store
AllPaths == Paths \cup {f.path : f \in FoundFiles}
\* byte strings a client uploads
Contents == {<<>>, <<104, 105>>}
\* the optional client_mtime of put_file: absent, or a timestamp
ClientMtimes == {{}, {0}}
\* the optional `since` cursor of get_sync_state: absent, or a timestamp
Cursors == {{}} \cup {{T} : T \in 0..MaxMs}

\* the ids generate_uuid produces, in the order it produces them
NoteIdPool == <<"n1", "n2", "n3", "n4">>
NoteIds == {NoteIdPool[k] : k \in 1..MaxNotes}
Titles == {"T", "U"}
\* note contents a client sends, as sequences of lines; a line is a sequence of words
Bodies == {<<<<"b">>>>}
\* tag names as the sequences of their comma-free parts: "x" and "y,z"
TagNames == {<<"x">>, <<"y", "z">>}
TagLists == {{}, {<<"x">>}, {<<"y", "z">>}}
\* words a search_notes query may ask for
Queries == {"T", "b"}

\* a note file another device left under notes_root before the server starts
FoundNotes == {[path |-> <<"n0", ".md">>, title |-> "T", tags |-> {<<"x">>},
                content |-> <<<<"b">>>>]}
AllNoteIds == NoteIds \cup {f.path[1] : f \in FoundNotes}

\* the bodies of update_note: at most one field is supplied
UpdateRequests ==
    {[title |-> {}, tags |-> {}, content |-> {}]}
        \cup {[title |-> {x}, tags |-> {}, content |-> {}] : x \in Titles}
        \cup {[title |-> {}, tags |-> {x}, content |-> {}] : x \in TagLists}
        \cup {[title |-> {}, tags |-> {}, content |-> {x}] : x \in Bodies}

VARIABLES
    multithreaded,      \* ServerConfig::multithreaded
    now_ms,             \* the wall clock read by sync::now_ms()
    m_AuthorizedKeys,   \* AuthManager::m_AuthorizedKeys
    m_KeysMutex,        \* AuthManager::m_KeysMutex: "free" or its holder
    reload,             \* the thread that reloads the keys: its position and locals
    client,             \* a polling sync client: its cursor and what it has received
    auth_challenges,    \* table auth_challenges (challenge is the primary key)
    auth_tokens,        \* table auth_tokens (token is the primary key)
    generated,          \* how many challenges / tokens the generators produced
    m_Fs,               \* the content store below files_root: one entry per stored path
    files,              \* table files (path is unique)
    last_write,         \* history: per path, the last put_file / delete_file on it
    m_NotesFs,          \* the content store below notes_root: one parsed note per file
    notes,              \* table notes (id is the primary key)
    tags,               \* table tags (name is unique)
    note_tags,          \* table note_tags (note_id, tag)
    notes_fts,          \* virtual table notes_fts
    uuids,              \* how many ids generate_uuid produced
    note_hist,          \* history: how many calls of the note service failed, and per
                        \* note what the last call left of it while none had failed
    pc,                 \* per thread: the statement it executes next
    req,                \* per thread: the request and the locals of its handler
    ret,                \* per thread: the result the handler returns
    created,            \* history: every create_challenge that stored a row
    issued,             \* history: every verify_challenge that stored a token
    spent               \* history: challenges matched / failed on signature

sideVars == <<m_KeysMutex, reload, client>>
authVars == <<m_AuthorizedKeys, auth_challenges, auth_tokens, generated,
              created, issued, spent>>
fileVars == <<m_Fs, files, last_write>>
noteVars == <<m_NotesFs, notes, tags, note_tags, notes_fts, uuids, note_hist>>
vars == <<multithreaded, sideVars, now_ms, authVars, fileVars, noteVars, pc, req, ret>>

\* ------------------------------------------------------------ clock
now_s == now_ms \div MsPerSec

\* --------------------------------------------------- external collaborators
\* sync::parse_public_key
parse_public_key(k) == k # "bad"

\* C6 mutant: the authorization check is skipped
is_authorized_skipped(keys, k) == TRUE

\* AuthManager::is_authorized, under m_KeysMutex
is_authorized(keys, k) == k \in keys

\* C3 mutant: the result of the signature check is ignored
verify_signature_ignored(sig) == TRUE

\* sync::verify_signature as verify_challenge uses it: the request's signature either
\* is a signature of req.challenge under req.public_key ("good") or is not
verify_signature(sig) == sig = "good"

\* ------------------------------------------------- Metadata Store: auth
store_challenge(tbl, ch, pk, exp) ==
    tbl \cup {[challenge |-> ch, public_key |-> pk, expires_at |-> exp]}

\* C5 mutant: a challenge is still accepted in the second it expires
validate_challenge_select_inclusive(tbl, ch, pk, now) ==
    \E r \in tbl : r.challenge = ch /\ r.public_key = pk /\ r.expires_at >= now

\* C36 mutant: the SELECT does not compare the public key
validate_challenge_select_any_key(tbl, ch, pk, now) ==
    \E r \in tbl : r.challenge = ch /\ r.expires_at > now

\* the SELECT of validate_challenge
validate_challenge_select(tbl, ch, pk, now) ==
    \E r \in tbl : r.challenge = ch /\ r.public_key = pk /\ r.expires_at > now

\* C1 mutant: the challenge is not consumed
validate_challenge_delete_skipped(tbl, ch) == tbl

\* the DELETE of validate_challenge
validate_challenge_delete(tbl, ch) == {r \in tbl : r.challenge # ch}

\* last_used is NULL (-1) until the first validation
store_token(tbl, tok, now, exp) ==
    tbl \cup {[token |-> tok, created_at |-> now, expires_at |-> exp, last_used |-> -1]}

\* C4 mutant: a token is still accepted in the second it expires
validate_token_select_inclusive(tbl, tok, now) ==
    \E r \in tbl : r.token = tok /\ r.expires_at >= now

\* the SELECT of validate_token
validate_token_select(tbl, tok, now) ==
    \E r \in tbl : r.token = tok /\ r.expires_at > now

\* the UPDATE of validate_token
validate_token_touch(tbl, tok, now) ==
    {IF r.token = tok THEN [r EXCEPT !.last_used = now] ELSE r : r \in tbl}

\* C24 mutant: the sweep also deletes the rows that expire in this second
cleanup_expired_tokens_inclusive(tbl, now) == {r \in tbl : ~(r.expires_at <= now)}

\* C26 mutant: a DELETE without its WHERE clause
cleanup_expired_tokens_unconditional(tbl, now) == {}

\* MetadataStore::cleanup_expired_tokens: DELETE ... WHERE expires_at < now
cleanup_expired_tokens(tbl, now) == {r \in tbl : ~(r.expires_at < now)}

\* ------------------------------------------------ Metadata Store: files
\* MetadataStore::get_file: the row of `path`, as a set of at most one record
meta_get_file(tbl, path) == {r \in tbl : r.path = path}

\* MetadataStore::get_all_files without `since`
get_all_files(tbl) == tbl

\* C11 mutant: the cursor comparison includes updated_at = since
get_changed_since_inclusive(tbl, since) == {r \in tbl : r.updated_at >= since}

\* MetadataStore::get_all_files(since): WHERE updated_at > ?
get_changed_since(tbl, since) == {r \in tbl : r.updated_at > since}

\* C20 mutant: INSERT OR IGNORE, a conflicting row is kept as it is
upsert_file_ignores_conflict(tbl, meta) ==
    IF \E r \in tbl : r.path = meta.path THEN tbl ELSE tbl \cup {meta}

\* C35 mutant: a row whose hash is the new one keeps its updated_at
upsert_file_skips_unchanged(tbl, meta) ==
    IF \A r \in tbl : r.path # meta.path
      THEN tbl \cup {meta}
      ELSE {IF r.path = meta.path
              THEN [meta EXCEPT !.created_at = r.created_at,
                                !.updated_at = IF r.hash = meta.hash THEN r.updated_at
                                               ELSE @]
              ELSE r : r \in tbl}

\* C34 mutant: is_deleted is not among the columns the conflict clause updates
upsert_file_keeps_tombstone(tbl, meta) ==
    IF \A r \in tbl : r.path # meta.path
      THEN tbl \cup {meta}
      ELSE {IF r.path = meta.path
              THEN [meta EXCEPT !.created_at = r.created_at, !.is_deleted = r.is_deleted]
              ELSE r : r \in tbl}

\* C32 mutant: the upsert replaces the table, rows of other paths are dropped
upsert_file_replaces_table(tbl, meta) == {meta}

\* INSERT ... ON CONFLICT(path) DO UPDATE: created_at is not among the updated columns
upsert_file(tbl, meta) ==
    IF meta_get_file(tbl, meta.path) = {}
      THEN tbl \cup {meta}
      ELSE {IF r.path = meta.path
              THEN [meta EXCEPT !.created_at = r.created_at]
              ELSE r : r \in tbl}

\* C10 mutant: the row is purged instead of tombstoned
mark_deleted_purges(tbl, path, now) == {r \in tbl : r.path # path}

\* C31 mutant: the tombstone write also clears the digest and the size
mark_deleted_clears_hash(tbl, path, now) ==
    {IF r.path = path
       THEN [r EXCEPT !.is_deleted = TRUE, !.updated_at = now, !.hash = <<>>, !.size = 0]
       ELSE r : r \in tbl}

\* UPDATE files SET is_deleted = 1, updated_at = now WHERE path = ?
mark_deleted(tbl, path, now) ==
    {IF r.path = path THEN [r EXCEPT !.is_deleted = TRUE, !.updated_at = now] ELSE r : r \in tbl}

\* -------------------------------------------------------- content store
\* fs::Filesystem::exists / read / mtime
fs_entry(store, path) == {f \in store : f.path = path}

\* fs::Filesystem::write: the file's bytes are replaced, its mtime is the write time
fs_write(store, path, content, now) ==
    {f \in store : f.path # path} \cup {[path |-> path, content |-> content, mtime |-> now]}

\* fs::Filesystem::set_mtime
fs_set_mtime(store, path, mtime) ==
    {IF f.path = path THEN [f EXCEPT !.mtime = mtime] ELSE f : f \in store}

\* fs::Filesystem::remove
fs_remove(store, path) == {f \in store : f.path # path}

\* fs::Filesystem::list_recursive
fs_list_recursive(store) == {f.path : f \in store}

\* C9 mutant: the digest of no bytes is the empty string
hash_bytes_raw(content) == content

\* sync::hash_bytes: a digest, never empty, that tells apart the modelled contents
hash_bytes(content) == <<"sha256">> \o content

\* FileService::build_metadata
build_metadata(store, path, content, now) ==
    [path |-> path, hash |-> hash_bytes(content), size |-> Len(content),
     mtime |-> IF fs_entry(store, path) # {}
                 THEN (CHOOSE f \in fs_entry(store, path) : TRUE).mtime ELSE now,
     created_at |-> now, updated_at |-> now, is_deleted |-> FALSE]

\* ------------------------------------------------------------ requests
\* at, pre, seen are bookkeeping for the properties: the time the handler read, what
\* held of its argument when it was called, and what had happened to it before;
\* called and failed name the store calls the handler made and those that failed
NoReq == [op |-> "none", public_key |-> "none", challenge |-> 0, signature |-> "none",
          header |-> <<>>, valid_header |-> "unset", at |-> 0, pre |-> FALSE, seen |-> {},
          path |-> "none", content |-> <<>>, client_mtime |-> {}, created_at |-> 0,
          meta |-> {}, todo |-> {}, indexed |-> 0, since |-> {},
          called |-> {}, failed |-> {}, id |-> "none"]
\* data carries the bytes, the metadata or the listing a file operation returns
NoRet == [ok |-> FALSE, value |-> FALSE, error |-> "none", token |-> 0, expires_at |-> 0,
          data |-> <<>>]

Ok(value) == [NoRet EXCEPT !.ok = TRUE, !.value = value]
Err(msg) == [NoRet EXCEPT !.error = msg]

\* a single-threaded server handles every request on its one thread
CanStart(t) ==
    /\ pc[t] = "idle"
    /\ multithreaded \/ t = MainThread

InFlight(ops) == Cardinality({u \in Threads : req[u].op \in ops /\ pc[u] # "done"})

Finish(t, r) ==
    /\ pc' = [pc EXCEPT ![t] = "done"]
    /\ ret' = [ret EXCEPT ![t] = r]

\* what the properties mean by a usable challenge and a usable token at second `now`
ChallengeLive(ch, k, now) ==
    \E r \in auth_challenges : r.challenge = ch /\ r.public_key = k /\ now < r.expires_at
TokenLive(tok, now) == \E r \in auth_tokens : r.token = tok /\ now < r.expires_at

\* the last put_file / delete_file on a path: op is "none", "pending" while one runs,
\* "failed", or the operation that returned success; had_record tells whether the
\* path had a row when the operation was called, rescanned whether scan_and_index
\* has upserted the path since
NoWrite == [op |-> "none", content |-> <<>>, had_record |-> FALSE, rescanned |-> FALSE]

Wrote(t, op, success) ==
    last_write' = [last_write EXCEPT ![req[t].path] =
                     [@ EXCEPT !.op = IF success THEN op ELSE "failed"]]

\* the reloading thread outside load_authorized_keys
NoReload == [pc |-> "idle", old |-> {}, value |-> {}, result |-> "none"]

\* a client that has not polled yet
NoClient == [since |-> {}, got |-> {}, snapshot |-> {}]

\* ------------------------------------------------------------ Init
\* the stores are empty and every thread waits for a request
InitState ==
    /\ now_ms = 0
    /\ m_KeysMutex = "free"
    /\ reload = NoReload
    /\ client = NoClient
    /\ auth_challenges = {}
    /\ auth_tokens = {}
    /\ generated = [challenges |-> 0, tokens |-> 0]
    /\ pc = [t \in Threads |-> "idle"]
    /\ req = [t \in Threads |-> NoReq]
    /\ ret = [t \in Threads |-> NoRet]
    /\ created = {}
    /\ issued = {}
    /\ spent = [matched |-> {}, sig_failed |-> {}]
    /\ m_Fs = FoundFiles
    /\ files = {}
    /\ last_write = [p \in Paths |-> NoWrite]
    /\ m_NotesFs = FoundNotes
    /\ notes = {}
    /\ tags = {}
    /\ note_tags = {}
    /\ notes_fts = {}
    /\ uuids = 0
    /\ note_hist = [faults |-> 0, last |-> [id \in AllNoteIds |-> {}]]

\* AuthManager::AuthManager: no key is loaded yet
Init ==
    /\ InitState
    /\ multithreaded \in BOOLEAN
    /\ m_AuthorizedKeys = {}

\* Server::initialize: the one load_authorized_keys of the server's life; a failed
\* load is logged and leaves the set empty
ServerInit ==
    /\ InitState
    /\ multithreaded = FALSE
    /\ \E keys_result \in KeyReads :
         m_AuthorizedKeys = IF keys_result.ok THEN keys_result.value ELSE {}

\* a second of wall-clock time passes
TickSecond ==
    /\ now_s < MaxSeconds
    /\ now_ms' = now_ms + MsPerSec
    /\ UNCHANGED <<multithreaded, sideVars, noteVars, fileVars, authVars, pc, req, ret>>

\* the response is sent; the thread takes the next request
Return(t) ==
    /\ pc[t] = "done"
    /\ pc' = [pc EXCEPT ![t] = "idle"]
    /\ req' = [req EXCEPT ![t] = NoReq]
    /\ ret' = [ret EXCEPT ![t] = NoRet]
    /\ UNCHANGED <<multithreaded, sideVars, noteVars, fileVars, now_ms, authVars>>

\* ------------------------------------------------------------ Auth Manager
\* load_authorized_keys / reload_authorized_keys, the whole body under m_KeysMutex:
\* keys_result is what sync::load_authorized_keys read from the file
load_authorized_keys(keys_result) ==
    /\ m_AuthorizedKeys' = IF ~keys_result.ok THEN m_AuthorizedKeys ELSE keys_result.value
    /\ UNCHANGED <<multithreaded, sideVars, noteVars, fileVars, now_ms, auth_challenges, auth_tokens, generated,
                   created, issued, spent, pc, req, ret>>

\* C23 mutant: the lock is not taken
lock_guard_skipped(mutex) == TRUE

\* std::lock_guard<std::mutex> lock(m_KeysMutex): the caller goes on once the mutex is
\* free
lock_guard(mutex) == mutex = "free"

\* load_authorized_keys statement by statement. Line 9: the lock is taken
reload_lock ==
    /\ reload.pc = "idle"
    /\ lock_guard(m_KeysMutex)
    /\ m_KeysMutex' = "reload"
    /\ reload' = [NoReload EXCEPT !.pc = "read"]
    /\ UNCHANGED <<multithreaded, client, now_ms, authVars, fileVars, noteVars, pc, req, ret>>

\* C38 mutant: a failed read leaves the set empty
reload_read_clears_on_error(keys_result) ==
    /\ reload.pc = "read"
    /\ IF keys_result.ok
         THEN /\ reload' = [NoReload EXCEPT !.pc = "assign", !.old = m_AuthorizedKeys,
                                            !.value = keys_result.value]
              /\ UNCHANGED <<m_KeysMutex, m_AuthorizedKeys>>
         ELSE /\ reload' = [NoReload EXCEPT !.result = "error"]
              /\ m_KeysMutex' = "free"
              /\ m_AuthorizedKeys' = {}
    /\ UNCHANGED <<multithreaded, client, now_ms, auth_challenges, auth_tokens,
                   generated, created, issued, spent, fileVars, noteVars, pc, req, ret>>

\* lines 10-13: the file is read; an error is returned and the lock released
reload_read(keys_result) ==
    /\ reload.pc = "read"
    /\ IF keys_result.ok
         THEN /\ reload' = [NoReload EXCEPT !.pc = "assign", !.old = m_AuthorizedKeys,
                                            !.value = keys_result.value]
              /\ UNCHANGED m_KeysMutex
         ELSE /\ reload' = [NoReload EXCEPT !.result = "error"]
              /\ m_KeysMutex' = "free"
    /\ UNCHANGED <<multithreaded, client, now_ms, authVars, fileVars, noteVars, pc, req, ret>>

\* line 14, the move assignment of the vector under way: until it is finished the
\* vector holds `torn`, some part of the old and the new keys
reload_assign(torn) ==
    /\ reload.pc = "assign"
    /\ m_AuthorizedKeys' = torn
    /\ reload' = [reload EXCEPT !.pc = "assigned"]
    /\ UNCHANGED <<multithreaded, m_KeysMutex, client, now_ms, auth_challenges, auth_tokens,
                   generated, created, issued, spent, fileVars, noteVars, pc, req, ret>>

\* line 14, the move assignment finished
reload_assigned ==
    /\ reload.pc = "assigned"
    /\ m_AuthorizedKeys' = reload.value
    /\ reload' = [reload EXCEPT !.pc = "unlock"]
    /\ UNCHANGED <<multithreaded, m_KeysMutex, client, now_ms, auth_challenges, auth_tokens,
                   generated, created, issued, spent, fileVars, noteVars, pc, req, ret>>

\* lines 15-17: the log line, the return and the release of the lock
reload_unlock ==
    /\ reload.pc = "unlock"
    /\ m_KeysMutex' = "free"
    /\ reload' = [NoReload EXCEPT !.result = "success"]
    /\ UNCHANGED <<multithreaded, client, now_ms, authVars, fileVars, noteVars, pc, req, ret>>

\* the complete key sets of this moment: the loaded one, or during a replacement the
\* old and the new one
CompleteKeySets ==
    IF reload.pc = "assigned" THEN {reload.old, reload.value} ELSE {m_AuthorizedKeys}

\* AuthManager::is_authorized (lines 95-98): lock, membership test, unlock; nothing
\* else runs while the lock is held
is_authorized_call(t, k) ==
    /\ CanStart(t)
    /\ lock_guard(m_KeysMutex)
    /\ req' = [req EXCEPT ![t] = [NoReq EXCEPT !.op = "is_authorized", !.public_key = k,
                                               !.seen = CompleteKeySets]]
    /\ Finish(t, Ok(is_authorized(m_AuthorizedKeys, k)))
    /\ UNCHANGED <<multithreaded, sideVars, now_ms, authVars, fileVars, noteVars>>

\* create_challenge up to the key checks (lines 21-30)
create_challenge(t, k) ==
    /\ CanStart(t)
    /\ is_authorized(m_AuthorizedKeys, k) /\ parse_public_key(k)
         => generated.challenges + InFlight({"create_challenge"}) < MaxChallenges
    /\ req' = [req EXCEPT ![t] = [NoReq EXCEPT !.op = "create_challenge", !.public_key = k,
                                               !.at = now_s, !.pre = k \in m_AuthorizedKeys]]
    /\ IF ~is_authorized(m_AuthorizedKeys, k)
         THEN Finish(t, Err("Key not authorized"))
         ELSE IF ~parse_public_key(k)
           THEN Finish(t, Err("Invalid public key format"))
           ELSE pc' = [pc EXCEPT ![t] = "cc_store"] /\ UNCHANGED ret
    /\ UNCHANGED <<multithreaded, sideVars, noteVars, fileVars, now_ms, authVars>>

\* create_challenge from generate_challenge on (lines 31-44)
create_challenge_store(t) ==
    /\ pc[t] = "cc_store"
    /\ LET challenge == generated.challenges + 1
           expires_at == now_s + challenge_expiry
       IN /\ generated' = [generated EXCEPT !.challenges = challenge]
          /\ auth_challenges' = store_challenge(auth_challenges, challenge,
                                                req[t].public_key, expires_at)
          /\ created' = created \cup {[challenge |-> challenge,
                                       public_key |-> req[t].public_key,
                                       at |-> now_s, expires_at |-> expires_at,
                                       authorized |-> req[t].pre]}
          /\ Finish(t, [Ok(TRUE) EXCEPT !.token = challenge, !.expires_at = expires_at])
    /\ UNCHANGED <<multithreaded, sideVars, noteVars, fileVars, now_ms, m_AuthorizedKeys, auth_tokens, issued, spent, req>>

\* verify_challenge, the SELECT of validate_challenge (lines 47-55; store 574-589)
verify_challenge(t, ch, k, sig) ==
    /\ CanStart(t)
    /\ sig = "good" => generated.tokens + InFlight({"verify_challenge"}) < MaxTokens
    /\ req' = [req EXCEPT ![t] =
                 [NoReq EXCEPT !.op = "verify_challenge", !.challenge = ch, !.public_key = k,
                               !.signature = sig, !.at = now_s,
                               !.pre = ChallengeLive(ch, k, now_s),
                               !.seen = {x \in {"matched", "sig_failed"} : ch \in spent[x]}
                                          \cup {x \in {"unauthorized"} :
                                                  k \notin m_AuthorizedKeys}]]
    /\ IF validate_challenge_select(auth_challenges, ch, k, now_s)
         THEN /\ pc' = [pc EXCEPT ![t] = "vc_delete"]
              /\ spent' = [spent EXCEPT !.matched = @ \cup {ch}]
              /\ UNCHANGED ret
         ELSE /\ Finish(t, Err("Invalid or expired challenge"))
              /\ UNCHANGED spent
    /\ UNCHANGED <<multithreaded, sideVars, noteVars, fileVars, now_ms, m_AuthorizedKeys, auth_challenges, auth_tokens,
                   generated, created, issued>>

\* C2 mutant: the signature is checked before the challenge is consumed, and a
\* failed check returns without consuming it
verify_challenge_delete_late(t) ==
    /\ pc[t] = "vc_delete"
    /\ auth_challenges' = IF verify_signature(req[t].signature)
                            THEN validate_challenge_delete(auth_challenges, req[t].challenge)
                            ELSE auth_challenges
    /\ pc' = [pc EXCEPT ![t] = "vc_issue"]
    /\ UNCHANGED <<multithreaded, sideVars, noteVars, fileVars, now_ms, m_AuthorizedKeys, auth_tokens, generated,
                   created, issued, spent, req, ret>>

\* verify_challenge, the DELETE of validate_challenge (store lines 590-596)
verify_challenge_delete(t) ==
    /\ pc[t] = "vc_delete"
    /\ auth_challenges' = validate_challenge_delete(auth_challenges, req[t].challenge)
    /\ pc' = [pc EXCEPT ![t] = "vc_issue"]
    /\ UNCHANGED <<multithreaded, sideVars, noteVars, fileVars, now_ms, m_AuthorizedKeys, auth_tokens, generated,
                   created, issued, spent, req, ret>>

\* C37 mutant: the token is refused to a key that is not in the authorized set
verify_challenge_issue_checks_key(t) ==
    /\ pc[t] = "vc_issue"
    /\ IF ~is_authorized(m_AuthorizedKeys, req[t].public_key)
         THEN /\ Finish(t, Err("Key not authorized"))
              /\ UNCHANGED <<auth_tokens, generated, issued, spent>>
         ELSE IF ~verify_signature(req[t].signature)
           THEN /\ Finish(t, Err("Signature verification failed"))
                /\ spent' = [spent EXCEPT !.sig_failed = @ \cup {req[t].challenge}]
                /\ UNCHANGED <<auth_tokens, generated, issued>>
           ELSE LET token == generated.tokens + 1
                    expires_at == now_s + token_expiry
                IN /\ generated' = [generated EXCEPT !.tokens = token]
                   /\ auth_tokens' = store_token(auth_tokens, token, now_s, expires_at)
                   /\ issued' = issued \cup {[token |-> token, challenge |-> req[t].challenge,
                                              public_key |-> req[t].public_key,
                                              signature |-> req[t].signature,
                                              checked_at |-> req[t].at, live |-> req[t].pre,
                                              at |-> now_s, expires_at |-> expires_at]}
                   /\ Finish(t, [Ok(TRUE) EXCEPT !.token = token, !.expires_at = expires_at])
                   /\ UNCHANGED spent
    /\ UNCHANGED <<multithreaded, sideVars, noteVars, fileVars, now_ms, m_AuthorizedKeys, auth_challenges, created, req>>

\* verify_challenge from the key parse on (lines 56-82)
verify_challenge_issue(t) ==
    /\ pc[t] = "vc_issue"
    /\ IF ~parse_public_key(req[t].public_key)
         THEN /\ Finish(t, Err("Invalid public key"))
              /\ UNCHANGED <<auth_tokens, generated, issued, spent>>
         ELSE IF ~verify_signature(req[t].signature)
           THEN /\ Finish(t, Err("Signature verification failed"))
                /\ spent' = [spent EXCEPT !.sig_failed = @ \cup {req[t].challenge}]
                /\ UNCHANGED <<auth_tokens, generated, issued>>
           ELSE LET token == generated.tokens + 1
                    expires_at == now_s + token_expiry
                IN /\ generated' = [generated EXCEPT !.tokens = token]
                   /\ auth_tokens' = store_token(auth_tokens, token, now_s, expires_at)
                   /\ issued' = issued \cup {[token |-> token, challenge |-> req[t].challenge,
                                              public_key |-> req[t].public_key,
                                              signature |-> req[t].signature,
                                              checked_at |-> req[t].at, live |-> req[t].pre,
                                              at |-> now_s, expires_at |-> expires_at]}
                   /\ Finish(t, [Ok(TRUE) EXCEPT !.token = token, !.expires_at = expires_at])
                   /\ UNCHANGED spent
    /\ UNCHANGED <<multithreaded, sideVars, noteVars, fileVars, now_ms, m_AuthorizedKeys, auth_challenges, created, req>>

\* C7 mutant: one route is registered without the authenticate() call
route_authenticates_but_search(route) ==
    route \in ServiceRoutes \ {"GET /api/v1/notes/search"}

\* Server::setup_routes: does the lambda registered for `route` call authenticate()
\* before its handler
route_authenticates(route) == route \in ServiceRoutes

\* Server::authenticate up to the token extraction: the error it returns, or "" 
authenticate_header(auth_header) ==
    IF auth_header = <<>> THEN "Missing Authorization header"
    ELSE IF Len(auth_header) <= 1 \/ auth_header[1] # "Bearer "
      THEN "Invalid Authorization header format"
      ELSE ""

\* a request to a service route: the lambda's authenticate() up to the SELECT of
\* validate_token (part_001 lines 153-170; store lines 529-540)
request(t, route, auth_header) ==
    /\ CanStart(t)
    /\ LET r == [NoReq EXCEPT !.op = route, !.header = auth_header, !.at = now_s,
                              !.pre = \E tok \in Tokens : /\ auth_header = <<"Bearer ", tok>>
                                                          /\ TokenLive(tok, now_s)]
       IN IF ~route_authenticates(route)
            THEN /\ req' = [req EXCEPT ![t] = r]
                 /\ pc' = [pc EXCEPT ![t] = "handler"]
                 /\ UNCHANGED ret
          ELSE IF authenticate_header(auth_header) # ""
            THEN /\ req' = [req EXCEPT ![t] = r]
                 /\ Finish(t, Err(authenticate_header(auth_header)))
          ELSE IF validate_token_select(auth_tokens, auth_header[2], now_s)
            THEN /\ req' = [req EXCEPT ![t] = [r EXCEPT !.valid_header = "true"]]
                 /\ pc' = [pc EXCEPT ![t] = "vt_touch"]
                 /\ UNCHANGED ret
            ELSE /\ req' = [req EXCEPT ![t] = [r EXCEPT !.valid_header = "false"]]
                 /\ Finish(t, Err("Invalid or expired token"))
    /\ UNCHANGED <<multithreaded, sideVars, noteVars, fileVars, now_ms, authVars>>

\* validate_token, the UPDATE of last_used (store lines 541-548); authenticate returns
validate_token_update(t) ==
    /\ pc[t] = "vt_touch"
    /\ auth_tokens' = validate_token_touch(auth_tokens, req[t].header[2], req[t].at)
    /\ pc' = [pc EXCEPT ![t] = "handler"]
    /\ UNCHANGED <<multithreaded, sideVars, noteVars, fileVars, now_ms, m_AuthorizedKeys, auth_challenges, generated,
                   created, issued, spent, req, ret>>

\* the lambda calls the route's handler (handle_sync_state, handle_get_file, ...)
handler(t) ==
    /\ pc[t] = "handler"
    /\ Finish(t, Ok(TRUE))
    /\ UNCHANGED <<multithreaded, sideVars, noteVars, fileVars, now_ms, authVars, req>>

\* cleanup_expired: one DELETE statement
cleanup_expired ==
    /\ auth_tokens' = cleanup_expired_tokens(auth_tokens, now_s)
    /\ UNCHANGED <<multithreaded, sideVars, noteVars, fileVars, now_ms, m_AuthorizedKeys, auth_challenges, generated,
                   created, issued, spent, pc, req, ret>>

\* ------------------------------------------------------------ clock (ms)
\* a millisecond of wall-clock time passes
TickMs ==
    /\ now_ms < MaxMs
    /\ now_ms' = now_ms + 1
    /\ UNCHANGED <<multithreaded, sideVars, noteVars, authVars, fileVars, pc, req, ret>>

\* ------------------------------------------------------------ File Service
\* get_file, the metadata lookup (lines 9-16)
get_file(t, path) ==
    /\ CanStart(t)
    /\ req' = [req EXCEPT ![t] = [NoReq EXCEPT !.op = "get_file", !.path = path,
                                               !.seen = {last_write[path]}]]
    /\ IF \A r \in meta_get_file(files, path) : r.is_deleted
         THEN Finish(t, Err("File not found"))
         ELSE pc' = [pc EXCEPT ![t] = "gf_read"] /\ UNCHANGED ret
    /\ UNCHANGED <<multithreaded, sideVars, noteVars, now_ms, authVars, fileVars>>

\* get_file, m_Fs.read (line 17)
get_file_read(t) ==
    /\ pc[t] = "gf_read"
    /\ IF fs_entry(m_Fs, req[t].path) = {}
         THEN Finish(t, Err("Failed to read file"))
         ELSE Finish(t, [Ok(TRUE) EXCEPT
                           !.data = (CHOOSE f \in fs_entry(m_Fs, req[t].path) : TRUE).content])
    /\ UNCHANGED <<multithreaded, sideVars, noteVars, now_ms, authVars, fileVars, req>>

\* put_file, the lookup of the existing row for created_at (lines 24-29); lookup_ok
\* is whether m_Meta.get_file returned a value: an error is taken as "no row"
put_file(t, path, content, client_mtime, lookup_ok) ==
    /\ CanStart(t)
    /\ LET existing == IF lookup_ok THEN meta_get_file(files, path) ELSE {}
       IN req' = [req EXCEPT ![t] =
                    [NoReq EXCEPT !.op = "put_file", !.path = path, !.content = content,
                                  !.client_mtime = client_mtime, !.at = now_ms,
                                  !.seen = files, !.called = {"get_file"},
                                  !.failed = IF lookup_ok THEN {} ELSE {"get_file"},
                                  !.created_at = IF existing = {} THEN now_ms
                                                 ELSE (CHOOSE r \in existing : TRUE).created_at]]
    /\ last_write' = [last_write EXCEPT ![path] =
                        [op |-> "pending", content |-> content,
                         had_record |-> meta_get_file(files, path) # {}, rescanned |-> FALSE]]
    /\ pc' = [pc EXCEPT ![t] = "pf_write"]
    /\ UNCHANGED <<multithreaded, sideVars, noteVars, now_ms, authVars, m_Fs, files, ret>>

\* C16 mutant: the metadata is stored before the content write is attempted
put_file_write_index_first(t, write_ok) ==
    /\ pc[t] = "pf_write"
    /\ files' = upsert_file(files, [build_metadata(m_Fs, req[t].path, req[t].content, now_ms)
                                      EXCEPT !.created_at = req[t].created_at])
    /\ IF ~write_ok
         THEN /\ Finish(t, Err("Failed to write file"))
              /\ Wrote(t, "put_file", FALSE)
              /\ UNCHANGED m_Fs
         ELSE /\ m_Fs' = fs_write(m_Fs, req[t].path, req[t].content, now_ms)
              /\ pc' = [pc EXCEPT ![t] = IF req[t].client_mtime # {} THEN "pf_mtime"
                                                                     ELSE "pf_meta"]
              /\ UNCHANGED <<ret, last_write>>
    /\ req' = [req EXCEPT ![t].called = @ \cup {"write"},
                          ![t].failed = IF write_ok THEN @ ELSE @ \cup {"write"}]
    /\ UNCHANGED <<multithreaded, sideVars, noteVars, now_ms, authVars>>

\* put_file, m_Fs.write (lines 30-34); write_ok is whether the content store accepts it
put_file_write(t, write_ok) ==
    /\ pc[t] = "pf_write"
    /\ IF ~write_ok
         THEN /\ Finish(t, Err("Failed to write file"))
              /\ Wrote(t, "put_file", FALSE)
              /\ UNCHANGED m_Fs
         ELSE /\ m_Fs' = fs_write(m_Fs, req[t].path, req[t].content, now_ms)
              /\ pc' = [pc EXCEPT ![t] = IF req[t].client_mtime # {} THEN "pf_mtime"
                                                                     ELSE "pf_meta"]
              /\ UNCHANGED <<ret, last_write>>
    /\ req' = [req EXCEPT ![t].called = @ \cup {"write"},
                          ![t].failed = IF write_ok THEN @ ELSE @ \cup {"write"}]
    /\ UNCHANGED <<multithreaded, sideVars, noteVars, now_ms, authVars, files>>

\* put_file, m_Fs.set_mtime (lines 35-40)
put_file_set_mtime(t, mtime_ok) ==
    /\ pc[t] = "pf_mtime"
    /\ IF ~mtime_ok
         THEN /\ Finish(t, Err("Failed to set mtime"))
              /\ Wrote(t, "put_file", FALSE)
              /\ UNCHANGED m_Fs
         ELSE /\ m_Fs' = fs_set_mtime(m_Fs, req[t].path,
                                      CHOOSE m \in req[t].client_mtime : TRUE)
              /\ pc' = [pc EXCEPT ![t] = "pf_meta"]
              /\ UNCHANGED <<ret, last_write>>
    /\ req' = [req EXCEPT ![t].called = @ \cup {"set_mtime"},
                          ![t].failed = IF mtime_ok THEN @ ELSE @ \cup {"set_mtime"}]
    /\ UNCHANGED <<multithreaded, sideVars, noteVars, now_ms, authVars, files>>

\* put_file, build_metadata and the two overrides (lines 41-50)
put_file_build_metadata(t) ==
    /\ pc[t] = "pf_meta"
    /\ LET built == build_metadata(m_Fs, req[t].path, req[t].content, now_ms)
           meta == [built EXCEPT !.created_at = req[t].created_at,
                                 !.mtime = IF req[t].client_mtime # {}
                                             THEN CHOOSE m \in req[t].client_mtime : TRUE
                                             ELSE @]
       IN req' = [req EXCEPT ![t].meta = {meta}]
    /\ pc' = [pc EXCEPT ![t] = "pf_upsert"]
    /\ UNCHANGED <<multithreaded, sideVars, noteVars, now_ms, authVars, fileVars, ret>>

\* put_file, m_Meta.upsert_file (lines 51-56); db_ok is whether the statement executes
put_file_upsert(t, db_ok) ==
    /\ pc[t] = "pf_upsert"
    /\ LET meta == CHOOSE m \in req[t].meta : TRUE
       IN IF ~db_ok
            THEN /\ Finish(t, Err("Failed to store metadata"))
                 /\ UNCHANGED files
            ELSE /\ files' = upsert_file(files, meta)
                 /\ Finish(t, [Ok(TRUE) EXCEPT !.data = meta])
    /\ Wrote(t, "put_file", db_ok)
    /\ req' = [req EXCEPT ![t].called = @ \cup {"upsert_file"},
                          ![t].failed = IF db_ok THEN @ ELSE @ \cup {"upsert_file"}]
    /\ UNCHANGED <<multithreaded, sideVars, noteVars, now_ms, authVars, m_Fs>>

\* C18 mutant: a failed removal aborts the call before the tombstone write
delete_file_needs_removal(t, path, remove_ok) ==
    /\ CanStart(t)
    /\ req' = [req EXCEPT ![t] = [NoReq EXCEPT !.op = "delete_file", !.path = path,
                                               !.at = now_ms, !.seen = files,
                                               !.pre = meta_get_file(files, path) # {},
                                               !.called = {"remove"},
                                               !.failed = IF remove_ok THEN {}
                                                          ELSE {"remove"}]]
    /\ m_Fs' = IF remove_ok THEN fs_remove(m_Fs, path) ELSE m_Fs
    /\ IF remove_ok
         THEN /\ pc' = [pc EXCEPT ![t] = "df_mark"]
              /\ last_write' = [last_write EXCEPT ![path] =
                                  [NoWrite EXCEPT !.op = "pending",
                                                  !.had_record = meta_get_file(files, path) # {}]]
              /\ UNCHANGED ret
         ELSE /\ Finish(t, Err("Failed to remove file"))
              /\ last_write' = [last_write EXCEPT ![path] = [NoWrite EXCEPT !.op = "failed"]]
    /\ UNCHANGED <<multithreaded, sideVars, noteVars, now_ms, authVars, files>>

\* delete_file, m_Fs.remove (lines 60-64): a failed removal is only logged
delete_file(t, path, remove_ok) ==
    /\ CanStart(t)
    /\ req' = [req EXCEPT ![t] = [NoReq EXCEPT !.op = "delete_file", !.path = path,
                                               !.at = now_ms, !.seen = files,
                                               !.pre = meta_get_file(files, path) # {},
                                               !.called = {"remove"},
                                               !.failed = IF remove_ok THEN {}
                                                          ELSE {"remove"}]]
    /\ last_write' = [last_write EXCEPT ![path] =
                        [NoWrite EXCEPT !.op = "pending",
                                        !.had_record = meta_get_file(files, path) # {}]]
    /\ m_Fs' = IF remove_ok THEN fs_remove(m_Fs, path) ELSE m_Fs
    /\ pc' = [pc EXCEPT ![t] = "df_mark"]
    /\ UNCHANGED <<multithreaded, sideVars, noteVars, now_ms, authVars, files, ret>>

\* delete_file, m_Meta.mark_deleted (lines 65-71)
delete_file_mark(t, db_ok) ==
    /\ pc[t] = "df_mark"
    /\ IF ~db_ok
         THEN /\ Finish(t, Err("Failed to mark deleted"))
              /\ UNCHANGED files
         ELSE /\ files' = mark_deleted(files, req[t].path, now_ms)
              /\ Finish(t, Ok(TRUE))
    /\ Wrote(t, "delete_file", db_ok)
    /\ req' = [req EXCEPT ![t].called = @ \cup {"mark_deleted"},
                          ![t].failed = IF db_ok THEN @ ELSE @ \cup {"mark_deleted"}]
    /\ UNCHANGED <<multithreaded, sideVars, noteVars, now_ms, authVars, m_Fs>>

\* list_files: one SELECT
list_files(t) ==
    /\ CanStart(t)
    /\ req' = [req EXCEPT ![t] = [NoReq EXCEPT !.op = "list_files",
                                               !.seen = {[path |-> p, last |-> last_write[p]]
                                                           : p \in Paths}]]
    /\ Finish(t, [Ok(TRUE) EXCEPT !.data = get_all_files(files)])
    /\ UNCHANGED <<multithreaded, sideVars, noteVars, now_ms, authVars, fileVars>>

\* ------------------------------------------------------------ Sync Service
\* get_sync_state, the read of server_time (part_003 lines 9-10)
get_sync_state(t, since) ==
    /\ CanStart(t)
    /\ req' = [req EXCEPT ![t] = [NoReq EXCEPT !.op = "get_sync_state", !.since = since,
                                               !.at = now_ms]]
    /\ pc' = [pc EXCEPT ![t] = "sync_query"]
    /\ UNCHANGED <<multithreaded, sideVars, noteVars, now_ms, authVars, fileVars, ret>>

\* get_sync_state, get_changed_since or list_files (part_003 lines 11-24)
get_sync_state_query(t) ==
    /\ pc[t] = "sync_query"
    /\ req' = [req EXCEPT ![t].seen = files]
    /\ Finish(t, [Ok(TRUE) EXCEPT !.data =
                    [server_time |-> req[t].at,
                     files |-> IF req[t].since = {}
                                 THEN get_all_files(files)
                                 ELSE get_changed_since(files,
                                                        CHOOSE T \in req[t].since : TRUE)]])
    /\ UNCHANGED <<multithreaded, sideVars, noteVars, now_ms, authVars, fileVars>>

\* ------------------------------------------------------------ sync client
\* the client polls get_sync_state with the server_time of its previous poll as since;
\* it sends one poll at a time
poll(t) ==
    /\ \A u \in Threads : req[u].op # "get_sync_state"
    /\ get_sync_state(t, client.since)

\* the response reaches the client: it keeps the records and moves its cursor to the
\* returned server_time; snapshot is the index as the poll's query found it
poll_receive(t) ==
    /\ pc[t] = "done"
    /\ req[t].op = "get_sync_state"
    /\ client' = [since |-> {ret[t].data.server_time},
                  got |-> client.got \cup ret[t].data.files,
                  snapshot |-> req[t].seen]
    /\ pc' = [pc EXCEPT ![t] = "idle"]
    /\ req' = [req EXCEPT ![t] = NoReq]
    /\ ret' = [ret EXCEPT ![t] = NoRet]
    /\ UNCHANGED <<multithreaded, m_KeysMutex, reload, now_ms, authVars, fileVars, noteVars>>

\* ------------------------------------------------------------ scan
\* scan_and_index, m_Fs.list_recursive (lines 80-85)
scan_and_index(t, list_ok) ==
    /\ CanStart(t)
    /\ IF ~list_ok
         THEN /\ req' = [req EXCEPT ![t] = [NoReq EXCEPT !.op = "scan_and_index"]]
              /\ Finish(t, Err("Failed to list directory"))
         ELSE /\ req' = [req EXCEPT ![t] = [NoReq EXCEPT !.op = "scan_and_index",
                                                         !.todo = fs_list_recursive(m_Fs),
                                                         !.seen = fs_list_recursive(m_Fs)]]
              /\ pc' = [pc EXCEPT ![t] = "scan_read"]
              /\ UNCHANGED ret
    /\ UNCHANGED <<multithreaded, sideVars, noteVars, now_ms, authVars, fileVars>>

\* scan_and_index, one turn of the loop up to build_metadata (lines 86-96), or the
\* return after the last turn (lines 104-105)
scan_and_index_read(t) ==
    /\ pc[t] = "scan_read"
    /\ IF req[t].todo = {}
         THEN /\ Finish(t, [Ok(TRUE) EXCEPT !.data = req[t].indexed])
              /\ UNCHANGED req
         ELSE \E path \in req[t].todo :
                IF fs_entry(m_Fs, path) = {}
                  THEN /\ req' = [req EXCEPT ![t].todo = @ \ {path},
                                                   ![t].failed = @ \cup {path}]
                       /\ UNCHANGED <<pc, ret>>
                  ELSE /\ req' = [req EXCEPT
                                    ![t].path = path,
                                    ![t].meta = {build_metadata(m_Fs, path,
                                        (CHOOSE f \in fs_entry(m_Fs, path) : TRUE).content,
                                        now_ms)}]
                       /\ pc' = [pc EXCEPT ![t] = "scan_upsert"]
                       /\ UNCHANGED ret
    /\ UNCHANGED <<multithreaded, sideVars, noteVars, now_ms, authVars, fileVars>>

\* scan_and_index, m_Meta.upsert_file of the turn (lines 97-102)
scan_and_index_upsert(t, db_ok) ==
    /\ pc[t] = "scan_upsert"
    /\ files' = IF db_ok THEN upsert_file(files, CHOOSE m \in req[t].meta : TRUE) ELSE files
    /\ last_write' = IF db_ok /\ req[t].path \in Paths
                       THEN [last_write EXCEPT ![req[t].path].rescanned = TRUE]
                       ELSE last_write
    /\ req' = [req EXCEPT ![t].todo = @ \ {req[t].path},
                          ![t].failed = IF db_ok THEN @ ELSE @ \cup {req[t].path},
                          ![t].indexed = IF db_ok THEN @ + 1 ELSE @]
    /\ pc' = [pc EXCEPT ![t] = "scan_read"]
    /\ UNCHANGED <<multithreaded, sideVars, noteVars, now_ms, authVars, m_Fs, ret>>

\* ------------------------------------------------ Metadata Store: notes
Range(seq) == {seq[i] : i \in 1..Len(seq)}

\* GROUP_CONCAT(t.name) read back with getline(iss, tag, ','): the names are joined
\* with commas and the joined string is cut at every comma
split_tags(names) == {<<part>> : part \in UNION {Range(name) : name \in names}}

\* the tag names linked to a note
linked_tags(links, id) == {nt.tag : nt \in {l \in links : l.note_id = id}}

\* the row of a note joined with its tags, as the note SELECTs return it
note_row(links, r) ==
    [id |-> r.id, path |-> r.path, title |-> r.title, created_at |-> r.created_at, updated_at |-> r.updated_at, is_deleted |-> r.is_deleted,
     tags |-> split_tags(linked_tags(links, r.id))]

\* MetadataStore::get_note: the joined row of `id`, as a set of at most one record
meta_get_note(tbl, links, id) == {note_row(links, r) : r \in {x \in tbl : x.id = id}}

\* C15 mutant: get_all_notes without its is_deleted filter
get_all_notes_with_tombstones(tbl, links) == {note_row(links, r) : r \in tbl}

\* MetadataStore::get_all_notes: WHERE n.is_deleted = 0
get_all_notes(tbl, links) == {note_row(links, r) : r \in {x \in tbl : ~x.is_deleted}}

\* MetadataStore::get_notes_by_tag: WHERE t.name = ? AND n.is_deleted = 0
get_notes_by_tag(tbl, links, tag) ==
    {note_row(links, r) : r \in {x \in tbl : ~x.is_deleted /\ tag \in linked_tags(links, x.id)}}

\* notes_fts MATCH ?: the query word occurs in the entry's title or content
fts_match(entry, query) ==
    \/ entry.title = query
    \/ \E line \in Range(entry.content) : query \in Range(line)

\* MetadataStore::search_notes: JOIN notes_fts ... WHERE MATCH ? AND n.is_deleted = 0
search_notes(tbl, links, fts, query) ==
    {note_row(links, r) : r \in {x \in tbl : /\ ~x.is_deleted
                                              /\ \E e \in fts : /\ e.note_id = x.id
                                                                /\ fts_match(e, query)}}

\* the orders in which a result set can be returned
Orderings(S) ==
    {f \in [1..Cardinality(S) -> S] : \A i, j \in 1..Cardinality(S) : i # j => f[i] # f[j]}

\* ORDER BY n.updated_at DESC
by_updated_at_desc(S) ==
    {f \in Orderings(S) : \A i, j \in 1..Cardinality(S) : i < j => f[i].updated_at >= f[j].updated_at}

\* the INSERT ... ON CONFLICT(id) DO UPDATE of upsert_note: created_at is not among
\* the updated columns
upsert_note_row(tbl, meta) ==
    LET row == [id |-> meta.id, path |-> meta.path, title |-> meta.title,
                created_at |-> meta.created_at, updated_at |-> meta.updated_at,
                is_deleted |-> meta.is_deleted]
    IN IF \A r \in tbl : r.id # meta.id
         THEN tbl \cup {row}
         ELSE {IF r.id = meta.id THEN [row EXCEPT !.created_at = r.created_at] ELSE r : r \in tbl}

\* set_note_tags: DELETE FROM note_tags WHERE note_id = ?, then one link per tag
set_note_tags(links, id, tag_list) ==
    {l \in links : l.note_id # id} \cup {[note_id |-> id, tag |-> tag] : tag \in tag_list}

\* the UPDATE of MetadataStore::delete_note
mark_note_deleted(tbl, id, now) ==
    {IF r.id = id THEN [r EXCEPT !.is_deleted = TRUE, !.updated_at = now] ELSE r : r \in tbl}

\* MetadataStore::get_all_tags: COUNT(nt.note_id) ... GROUP BY t.id HAVING count > 0.
\* The LEFT JOIN of notes with n.is_deleted = 0 in its ON clause drops no note_tags
\* row, so the links of tombstoned notes are counted
get_all_tags(tag_tbl, links) ==
    {info \in {[name |-> name, count |-> Cardinality({l \in links : l.tag = name})]
                 : name \in tag_tbl} : info.count > 0}

\* MetadataStore::remove_fts
remove_fts(fts, id) == {e \in fts : e.note_id # id}

\* C13 mutant: update_fts that inserts without removing the old entry
update_fts_appends(fts, id, title, content) ==
    fts \cup {[note_id |-> id, title |-> title, content |-> content]}

\* MetadataStore::update_fts: remove_fts, then INSERT
update_fts(fts, id, title, content) ==
    remove_fts(fts, id) \cup {[note_id |-> id, title |-> title, content |-> content]}

\* MetadataStore::upsert_note statement by statement, as a caller on a request thread
\* runs it. Lines 385-406: the INSERT ... ON CONFLICT statement
upsert_note(t, id, title, tag_list) ==
    /\ CanStart(t)
    /\ LET meta == [id |-> id, path |-> <<id, ".md">>, title |-> title, tags |-> tag_list,
                    created_at |-> now_ms, updated_at |-> now_ms, is_deleted |-> FALSE]
       IN /\ notes' = upsert_note_row(notes, meta)
          /\ req' = [req EXCEPT ![t] = [NoReq EXCEPT !.op = "upsert_note", !.id = id,
                                                     !.meta = {meta}, !.todo = tag_list]]
    /\ pc' = [pc EXCEPT ![t] = "snt_delete"]
    /\ UNCHANGED <<multithreaded, sideVars, now_ms, authVars, fileVars, m_NotesFs, tags,
                   note_tags, notes_fts, uuids, note_hist, ret>>

\* set_note_tags, lines 454-459: DELETE FROM note_tags WHERE note_id = ?
set_note_tags_delete(t) ==
    /\ pc[t] = "snt_delete"
    /\ note_tags' = {l \in note_tags : l.note_id # req[t].id}
    /\ pc' = [pc EXCEPT ![t] = "snt_link"]
    /\ UNCHANGED <<multithreaded, sideVars, now_ms, authVars, fileVars, m_NotesFs, notes, tags,
                   notes_fts, uuids, note_hist, req, ret>>

\* set_note_tags, one turn of the loop (lines 461-483): the tag row is ensured and
\* the link inserted; after the last turn upsert_note returns
set_note_tags_link(t) ==
    /\ pc[t] = "snt_link"
    /\ IF req[t].todo = {}
         THEN /\ Finish(t, Ok(TRUE))
              /\ UNCHANGED <<req, tags, note_tags>>
         ELSE \E tag \in req[t].todo :
                /\ tags' = tags \cup {tag}
                /\ note_tags' = note_tags \cup {[note_id |-> req[t].id, tag |-> tag]}
                /\ req' = [req EXCEPT ![t].todo = @ \ {tag}]
                /\ UNCHANGED <<pc, ret>>
    /\ UNCHANGED <<multithreaded, sideVars, now_ms, authVars, fileVars, m_NotesFs, notes,
                   notes_fts, uuids, note_hist>>

\* ------------------------------------------------------------ Note Service
\* NoteService::note_path: id + ".md"
note_path(id) == <<id, ".md">>

\* C39 mutant: the cut leaves the dot of the extension in the id
note_id_of_keeps_dot(path) == path[1] \o "."

\* scan_and_index: path.substr(0, path.size() - 3)
note_id_of(path) == path[1]

\* create_note: "# " + req.title + "\n\n" + req.content
with_heading(title, content) == <<<<"#", title>>>> \o content

\* the parsed note a file of notes_root holds
note_file(store, path) == {f \in store : f.path = path}

write_note(store, path, title, tag_list, content) ==
    {f \in store : f.path # path}
        \cup {[path |-> path, title |-> title, tags |-> tag_list, content |-> content]}

\* bookkeeping: a note call failed / the last successful call left note id as `left`
NotesNow == [fs |-> m_NotesFs, notes |-> notes, note_tags |-> note_tags, fts |-> notes_fts]
MayFail(ok) == ok \/ note_hist.faults < MaxFaults
NoteFailed == note_hist' = [faults |-> note_hist.faults + 1, last |-> [id \in AllNoteIds |-> {}]]
NoteLeft(id, left) ==
    note_hist' = IF note_hist.faults = 0 THEN [note_hist EXCEPT !.last[id] = {left}]
                 ELSE note_hist

\* get_note (lines 134-147) with load_note_response (lines 400-417)
get_note(t, id) ==
    /\ CanStart(t)
    /\ req' = [req EXCEPT ![t] = [NoReq EXCEPT !.op = "get_note", !.id = id]]
    /\ LET found == {m \in meta_get_note(notes, note_tags, id) : ~m.is_deleted}
       IN IF found = {}
            THEN Finish(t, [Ok(TRUE) EXCEPT !.data = {}])
            ELSE LET meta == CHOOSE m \in found : TRUE
                     file == note_file(m_NotesFs, meta.path)
                 IN IF file = {}
                      THEN Finish(t, Err("Failed to read file"))
                      ELSE Finish(t, [Ok(TRUE) EXCEPT !.data =
                             {[id |-> meta.id, title |-> meta.title,
                               content |-> (CHOOSE f \in file : TRUE).content,
                               tags |-> meta.tags, created_at |-> meta.created_at,
                               updated_at |-> meta.updated_at]}])
    /\ UNCHANGED <<multithreaded, sideVars, noteVars, now_ms, authVars, fileVars>>

\* create_note up to m_Fs.write (lines 149-163)
create_note(t, title, content, tag_list, write_ok) ==
    /\ CanStart(t)
    /\ uuids < MaxNotes
    /\ MayFail(write_ok)
    /\ LET id == NoteIdPool[uuids + 1]
           stored == with_heading(title, content)
       IN /\ req' = [req EXCEPT ![t] =
                       [NoReq EXCEPT !.op = "create_note", !.id = id, !.at = now_ms,
                                     !.meta = {[id |-> id, path |-> note_path(id),
                                                title |-> title, tags |-> tag_list,
                                                content |-> content]},
                                     !.called = {"write"},
                                     !.failed = IF write_ok THEN {} ELSE {"write"}]]
          /\ IF write_ok
               THEN /\ m_NotesFs' = write_note(m_NotesFs, note_path(id), title, tag_list, stored)
                    /\ pc' = [pc EXCEPT ![t] = "cn_upsert"]
                    /\ UNCHANGED <<ret, note_hist>>
               ELSE /\ Finish(t, Err("Failed to write file"))
                    /\ NoteFailed
                    /\ UNCHANGED m_NotesFs
    /\ uuids' = uuids + 1
    /\ UNCHANGED <<multithreaded, sideVars, now_ms, authVars, fileVars, notes, tags, note_tags, notes_fts>>

\* create_note, the metadata and m_Meta.upsert_note (lines 164-179)
create_note_upsert(t, db_ok) ==
    /\ pc[t] = "cn_upsert"
    /\ MayFail(db_ok)
    /\ LET m == CHOOSE m \in req[t].meta : TRUE
           meta == [id |-> m.id, path |-> m.path, title |-> m.title, tags |-> m.tags,
                    created_at |-> now_ms, updated_at |-> now_ms,
                    is_deleted |-> FALSE]
       IN IF db_ok
            THEN /\ notes' = upsert_note_row(notes, meta)
                 /\ tags' = tags \cup meta.tags
                 /\ note_tags' = set_note_tags(note_tags, meta.id, meta.tags)
                 /\ req' = [req EXCEPT ![t].called = @ \cup {"upsert_note"}, ![t].at = now_ms]
                 /\ pc' = [pc EXCEPT ![t] = "cn_fts"]
                 /\ UNCHANGED <<ret, note_hist>>
            ELSE /\ Finish(t, Err("Failed to store note"))
                 /\ NoteFailed
                 /\ req' = [req EXCEPT ![t].called = @ \cup {"upsert_note"},
                                       ![t].failed = @ \cup {"upsert_note"}]
                 /\ UNCHANGED <<notes, tags, note_tags>>
    /\ UNCHANGED <<multithreaded, sideVars, now_ms, authVars, fileVars, m_NotesFs, notes_fts, uuids>>

\* create_note, m_Meta.update_fts and the response (lines 180-193)
create_note_fts(t, db_ok) ==
    /\ pc[t] = "cn_fts"
    /\ MayFail(db_ok)
    /\ LET m == CHOOSE m \in req[t].meta : TRUE
       IN IF db_ok
            THEN /\ notes_fts' = update_fts(notes_fts, m.id, m.title, m.content)
                 /\ Finish(t, [Ok(TRUE) EXCEPT !.data =
                                 {[id |-> m.id, title |-> m.title, content |-> m.content,
                                   tags |-> m.tags, created_at |-> req[t].at,
                                   updated_at |-> req[t].at]}])
                 /\ NoteLeft(m.id, [title |-> m.title, content |-> m.content,
                                    tags |-> m.tags, deleted |-> FALSE])
            ELSE /\ Finish(t, Err("Failed to update search index"))
                 /\ NoteFailed
                 /\ UNCHANGED notes_fts
    /\ req' = [req EXCEPT ![t].called = @ \cup {"update_fts"}, ![t].meta = {},
                          ![t].failed = IF db_ok THEN @ ELSE @ \cup {"update_fts"}]
    /\ UNCHANGED <<multithreaded, sideVars, now_ms, authVars, fileVars, m_NotesFs, notes, tags,
                   note_tags, uuids>>

\* update_note up to the rebuilt content (lines 196-225); title, tag_list and content
\* are the optional fields of the request
update_note(t, id, title, tag_list, content) ==
    /\ CanStart(t)
    /\ LET found == {m \in meta_get_note(notes, note_tags, id) : ~m.is_deleted}
           r == [NoReq EXCEPT !.op = "update_note", !.id = id, !.at = now_ms,
                              !.pre = found # {}]
       IN IF found = {}
            THEN /\ req' = [req EXCEPT ![t] = [r EXCEPT !.seen = {NotesNow}]]
                 /\ Finish(t, Err("Note not found"))
            ELSE LET existing == CHOOSE m \in found : TRUE
                     file == note_file(m_NotesFs, existing.path)
                 IN IF file = {}
                      THEN /\ req' = [req EXCEPT ![t] = r]
                           /\ Finish(t, Err("Failed to read file"))
                      ELSE LET parsed == CHOOSE f \in file : TRUE
                               new_title == IF title = {} THEN existing.title
                                            ELSE CHOOSE x \in title : TRUE
                               new_tags == IF tag_list = {} THEN existing.tags
                                           ELSE CHOOSE x \in tag_list : TRUE
                               new_content == IF content = {} THEN parsed.content
                                              ELSE CHOOSE x \in content : TRUE
                           IN /\ req' = [req EXCEPT ![t] =
                                   [r EXCEPT !.created_at = existing.created_at,
                                             !.meta = {[id |-> id, path |-> existing.path,
                                                        title |-> new_title, tags |-> new_tags,
                                                        content |-> new_content]}]]
                              /\ pc' = [pc EXCEPT ![t] = "un_write"]
                              /\ UNCHANGED ret
    /\ UNCHANGED <<multithreaded, sideVars, noteVars, now_ms, authVars, fileVars>>

\* update_note, m_Fs.write (lines 226-230)
update_note_write(t, write_ok) ==
    /\ pc[t] = "un_write"
    /\ MayFail(write_ok)
    /\ LET m == CHOOSE m \in req[t].meta : TRUE
       IN IF write_ok
            THEN /\ m_NotesFs' = write_note(m_NotesFs, m.path, m.title, m.tags, m.content)
                 /\ pc' = [pc EXCEPT ![t] = "un_upsert"]
                 /\ UNCHANGED <<ret, note_hist>>
            ELSE /\ Finish(t, Err("Failed to write file"))
                 /\ NoteFailed
                 /\ UNCHANGED m_NotesFs
    /\ req' = [req EXCEPT ![t].called = @ \cup {"write"},
                          ![t].failed = IF write_ok THEN @ ELSE @ \cup {"write"}]
    /\ UNCHANGED <<multithreaded, sideVars, now_ms, authVars, fileVars, notes, tags, note_tags,
                   notes_fts, uuids>>

\* update_note, the metadata and m_Meta.upsert_note (lines 231-245)
update_note_upsert(t, db_ok) ==
    /\ pc[t] = "un_upsert"
    /\ MayFail(db_ok)
    /\ LET m == CHOOSE m \in req[t].meta : TRUE
           meta == [id |-> m.id, path |-> m.path, title |-> m.title, tags |-> m.tags,
                    created_at |-> req[t].created_at,
                    updated_at |-> now_ms, is_deleted |-> FALSE]
       IN IF db_ok
            THEN /\ notes' = upsert_note_row(notes, meta)
                 /\ tags' = tags \cup meta.tags
                 /\ note_tags' = set_note_tags(note_tags, meta.id, meta.tags)
                 /\ req' = [req EXCEPT ![t].called = @ \cup {"upsert_note"}, ![t].at = now_ms]
                 /\ pc' = [pc EXCEPT ![t] = "un_fts"]
                 /\ UNCHANGED <<ret, note_hist>>
            ELSE /\ Finish(t, Err("Failed to store note"))
                 /\ NoteFailed
                 /\ req' = [req EXCEPT ![t].called = @ \cup {"upsert_note"},
                                       ![t].failed = @ \cup {"upsert_note"}]
                 /\ UNCHANGED <<notes, tags, note_tags>>
    /\ UNCHANGED <<multithreaded, sideVars, now_ms, authVars, fileVars, m_NotesFs, notes_fts, uuids>>

\* update_note, m_Meta.update_fts and the response (lines 246-259)
update_note_fts(t, db_ok) ==
    /\ pc[t] = "un_fts"
    /\ MayFail(db_ok)
    /\ LET m == CHOOSE m \in req[t].meta : TRUE
       IN IF db_ok
            THEN /\ notes_fts' = update_fts(notes_fts, m.id, m.title, m.content)
                 /\ Finish(t, [Ok(TRUE) EXCEPT !.data =
                                 {[id |-> m.id, title |-> m.title, content |-> m.content,
                                   tags |-> m.tags, created_at |-> req[t].created_at,
                                   updated_at |-> req[t].at]}])
                 /\ NoteLeft(m.id, [title |-> m.title, content |-> m.content,
                                    tags |-> m.tags, deleted |-> FALSE])
            ELSE /\ Finish(t, Err("Failed to update search index"))
                 /\ NoteFailed
                 /\ UNCHANGED notes_fts
    /\ req' = [req EXCEPT ![t].called = @ \cup {"update_fts"}, ![t].meta = {},
                          ![t].failed = IF db_ok THEN @ ELSE @ \cup {"update_fts"}]
    /\ UNCHANGED <<multithreaded, sideVars, now_ms, authVars, fileVars, m_NotesFs, notes, tags,
                   note_tags, uuids>>

\* delete_note, the lookup (lines 262-269)
delete_note(t, id) ==
    /\ CanStart(t)
    /\ req' = [req EXCEPT ![t] = [NoReq EXCEPT !.op = "delete_note", !.id = id, !.at = now_ms,
                                               !.pre = \E r \in notes : r.id = id]]
    /\ IF meta_get_note(notes, note_tags, id) = {}
         THEN Finish(t, Err("Note not found"))
         ELSE pc' = [pc EXCEPT ![t] = "dn_remove"] /\ UNCHANGED ret
    /\ UNCHANGED <<multithreaded, sideVars, noteVars, now_ms, authVars, fileVars>>

\* delete_note, m_Fs.remove (lines 270-273): a failed removal is returned
delete_note_remove(t, remove_ok) ==
    /\ pc[t] = "dn_remove"
    /\ MayFail(remove_ok)
    /\ IF remove_ok
         THEN /\ m_NotesFs' = {f \in m_NotesFs : f.path # note_path(req[t].id)}
              /\ pc' = [pc EXCEPT ![t] = "dn_mark"]
              /\ UNCHANGED <<ret, note_hist>>
         ELSE /\ Finish(t, Err("Failed to remove file"))
              /\ NoteFailed
              /\ UNCHANGED m_NotesFs
    /\ req' = [req EXCEPT ![t].called = @ \cup {"remove"},
                          ![t].failed = IF remove_ok THEN @ ELSE @ \cup {"remove"}]
    /\ UNCHANGED <<multithreaded, sideVars, now_ms, authVars, fileVars, notes, tags, note_tags,
                   notes_fts, uuids>>

\* delete_note, m_Meta.delete_note (lines 274-280; store lines 414-429): the
\* tombstone UPDATE, then remove_fts
delete_note_mark(t, db_ok) ==
    /\ pc[t] = "dn_mark"
    /\ MayFail(db_ok)
    /\ IF db_ok
         THEN /\ notes' = mark_note_deleted(notes, req[t].id, now_ms)
              /\ notes_fts' = remove_fts(notes_fts, req[t].id)
              /\ Finish(t, Ok(TRUE))
              /\ NoteLeft(req[t].id, [title |-> "", content |-> <<>>, tags |-> {},
                                       deleted |-> TRUE])
         ELSE /\ Finish(t, Err("Failed to mark note deleted"))
              /\ NoteFailed
              /\ UNCHANGED <<notes, notes_fts>>
    /\ req' = [req EXCEPT ![t].called = @ \cup {"delete_note"},
                          ![t].failed = IF db_ok THEN @ ELSE @ \cup {"delete_note"}]
    /\ UNCHANGED <<multithreaded, sideVars, now_ms, authVars, fileVars, m_NotesFs, tags, note_tags, uuids>>

\* the listing options of list_notes
ListOptions ==
    {[kind |-> "all", arg |-> "none"]}
        \cup {[kind |-> "tag", arg |-> tag] : tag \in TagNames}
        \cup {[kind |-> "search", arg |-> q] : q \in Queries}

\* list_notes (lines 283-317): search_notes, get_notes_by_tag or get_all_notes, then
\* one list item per note in the order the store returned; search results come in
\* the search engine's rank order
list_notes(t, options) ==
    /\ CanStart(t)
    /\ req' = [req EXCEPT ![t] = [NoReq EXCEPT !.op = "list_notes", !.since = {options}]]
    /\ \E listing \in IF options.kind = "search"
                        THEN Orderings(search_notes(notes, note_tags, notes_fts, options.arg))
                      ELSE IF options.kind = "tag"
                        THEN by_updated_at_desc(get_notes_by_tag(notes, note_tags, options.arg))
                        ELSE by_updated_at_desc(get_all_notes(notes, note_tags)) :
         Finish(t, [Ok(TRUE) EXCEPT !.data =
                      [i \in 1..Len(listing) |->
                         [id |-> listing[i].id, title |-> listing[i].title,
                          tags |-> listing[i].tags, updated_at |-> listing[i].updated_at]]])
    /\ UNCHANGED <<multithreaded, sideVars, noteVars, now_ms, authVars, fileVars>>

\* get_tags (lines 319-327)
get_tags(t) ==
    /\ CanStart(t)
    /\ req' = [req EXCEPT ![t] = [NoReq EXCEPT !.op = "get_tags"]]
    /\ Finish(t, [Ok(TRUE) EXCEPT !.data = get_all_tags(tags, note_tags)])
    /\ UNCHANGED <<multithreaded, sideVars, noteVars, now_ms, authVars, fileVars>>

\* NoteService::scan_and_index, m_Fs.list_recursive and the ".md" filter (lines 345-355)
note_scan_and_index(t, list_ok) ==
    /\ CanStart(t)
    /\ MayFail(list_ok)
    /\ IF ~list_ok
         THEN /\ req' = [req EXCEPT ![t] = [NoReq EXCEPT !.op = "note_scan_and_index"]]
              /\ Finish(t, Err("Failed to list directory"))
              /\ NoteFailed
              /\ UNCHANGED <<m_NotesFs, notes, tags, note_tags, notes_fts, uuids>>
         ELSE /\ req' = [req EXCEPT ![t] =
                           [NoReq EXCEPT !.op = "note_scan_and_index",
                                         !.todo = {f.path : f \in {x \in m_NotesFs :
                                                                     x.path[2] = ".md"}}]]
              /\ pc' = [pc EXCEPT ![t] = "ns_turn"]
              /\ UNCHANGED <<ret, noteVars>>
    /\ UNCHANGED <<multithreaded, sideVars, now_ms, authVars, fileVars>>

\* NoteService::scan_and_index, one turn up to m_Meta.upsert_note (lines 356-389), or
\* the return after the last turn (lines 396-397)
note_scan_upsert(t, db_ok) ==
    /\ pc[t] = "ns_turn"
    /\ MayFail(db_ok)
    /\ IF req[t].todo = {}
         THEN /\ db_ok
              /\ Finish(t, [Ok(TRUE) EXCEPT !.data = req[t].indexed])
              /\ UNCHANGED <<req, notes, tags, note_tags, note_hist>>
         ELSE \E path \in req[t].todo :
                LET file == note_file(m_NotesFs, path)
                    id == note_id_of(path)
                    existing == {r \in notes : r.id = id}
                IN IF file = {} \/ ~db_ok
                     THEN /\ req' = [req EXCEPT ![t].todo = @ \ {path}]
                          /\ NoteFailed
                          /\ UNCHANGED <<pc, ret, notes, tags, note_tags>>
                     ELSE LET parsed == CHOOSE f \in file : TRUE
                              meta == [id |-> id, path |-> path, title |-> parsed.title,
                                       tags |-> parsed.tags, content |-> parsed.content,
                                       created_at |-> IF existing = {} THEN now_ms
                                           ELSE (CHOOSE r \in existing : TRUE).created_at,
                                       updated_at |-> now_ms, is_deleted |-> FALSE]
                          IN /\ notes' = upsert_note_row(notes, meta)
                             /\ tags' = tags \cup meta.tags
                             /\ note_tags' = set_note_tags(note_tags, id, meta.tags)
                             /\ req' = [req EXCEPT ![t].meta = {meta}, ![t].id = id,
                                                   ![t].todo = @ \ {path}]
                             /\ pc' = [pc EXCEPT ![t] = "ns_fts"]
                             /\ UNCHANGED <<ret, note_hist>>
    /\ UNCHANGED <<multithreaded, sideVars, now_ms, authVars, fileVars, m_NotesFs, notes_fts, uuids>>

\* NoteService::scan_and_index, m_Meta.update_fts of the turn (lines 390-394)
note_scan_fts(t, db_ok) ==
    /\ pc[t] = "ns_fts"
    /\ MayFail(db_ok)
    /\ LET m == CHOOSE m \in req[t].meta : TRUE
       IN IF db_ok
            THEN /\ notes_fts' = update_fts(notes_fts, m.id, m.title, m.content)
                 /\ req' = [req EXCEPT ![t].indexed = @ + 1]
                 /\ pc' = [pc EXCEPT ![t] = "ns_turn"]
                 /\ NoteLeft(m.id, [title |-> m.title, content |-> m.content,
                                    tags |-> m.tags, deleted |-> FALSE])
                 /\ UNCHANGED ret
            ELSE /\ Finish(t, Err("Failed to update search index"))
                 /\ NoteFailed
                 /\ UNCHANGED <<notes_fts, req>>
    /\ UNCHANGED <<multithreaded, sideVars, now_ms, authVars, fileVars, m_NotesFs, notes, tags,
                   note_tags, uuids>>

\* what happens beside the request threads: the clock, a key reload, the sweep
Environment ==
    \/ TickSecond
    \/ \E keys_result \in KeyReads : load_authorized_keys(keys_result)
    \/ cleanup_expired

\* POST /auth/challenge and POST /auth/verify
AuthRequests(t) ==
    \/ \E k \in Keys : create_challenge(t, k)
    \/ create_challenge_store(t)
    \/ \E ch \in Challenges, k \in Keys, sig \in Signatures : verify_challenge(t, ch, k, sig)
    \/ verify_challenge_delete(t)
    \/ verify_challenge_issue(t)

\* the sync, file and note routes
ServiceRequests(t) ==
    \/ \E route \in ServiceRoutes, auth_header \in Headers : request(t, route, auth_header)
    \/ validate_token_update(t)
    \/ handler(t)

\* the AuthManager under every call its interface offers; the token check is
\* reached through one service route
AuthNext ==
    \/ Environment
    \/ \E t \in Threads :
         \/ Return(t)
         \/ AuthRequests(t)
         \/ \E auth_header \in Headers : request(t, "GET /api/v1/sync/state", auth_header)
         \/ validate_token_update(t)
         \/ handler(t)

\* the running server: it never reloads the keys and never sweeps
ServerNext ==
    \/ TickSecond
    \/ \E t \in Threads : Return(t) \/ AuthRequests(t) \/ ServiceRequests(t)

\* concurrent authentication attempts
MTNext ==
    \/ Environment
    \/ \E t \in Threads : Return(t) \/ AuthRequests(t)

InitSeq == Init /\ ~multithreaded
InitMT == Init /\ multithreaded

\* a key reload, statement by statement, beside request threads that ask
\* is_authorized
KeyNext ==
    \/ reload_lock
    \/ \E keys_result \in KeyReads : reload_read(keys_result)
    \/ \E torn \in SUBSET (reload.old \cup reload.value) : reload_assign(torn)
    \/ reload_assigned
    \/ reload_unlock
    \/ \E t \in Threads :
         \/ Return(t)
         \/ \E k \in Keys : is_authorized_call(t, k)

\* reload_authorized_keys on one thread, is_authorized on the request threads
KeySpec == InitMT /\ [][KeyNext]_vars

\* the AuthManager called from one thread (multithreaded = false)
Spec == InitSeq /\ [][AuthNext]_vars

\* the server's routes, one request at a time
ServerSpec == ServerInit /\ [][ServerNext]_vars

\* the AuthManager called from a pool of request threads (multithreaded = true)
MTSpec == InitMT /\ [][MTNext]_vars

\* the AuthManager with time passing, the periodic sweep running again and again and
\* every response sent; no client is obliged to make a request
SweepSpec ==
    /\ InitSeq
    /\ [][AuthNext]_vars
    /\ WF_vars(TickSecond)
    /\ WF_vars(cleanup_expired)
    /\ \A t \in Threads : WF_vars(Return(t))

\* the FileService's interface
FileRequests(t) ==
    \/ \E path \in Paths : get_file(t, path)
    \/ get_file_read(t)
    \/ \E path \in Paths, content \in Contents, client_mtime \in ClientMtimes,
            lookup_ok \in BOOLEAN :
         put_file(t, path, content, client_mtime, lookup_ok)
    \/ \E write_ok \in BOOLEAN : put_file_write(t, write_ok)
    \/ \E mtime_ok \in BOOLEAN : put_file_set_mtime(t, mtime_ok)
    \/ put_file_build_metadata(t)
    \/ \E db_ok \in BOOLEAN : put_file_upsert(t, db_ok)
    \/ \E path \in Paths, remove_ok \in BOOLEAN : delete_file(t, path, remove_ok)
    \/ \E db_ok \in BOOLEAN : delete_file_mark(t, db_ok)
    \/ list_files(t)
    \/ \E list_ok \in BOOLEAN : scan_and_index(t, list_ok)
    \/ scan_and_index_read(t)
    \/ \E db_ok \in BOOLEAN : scan_and_index_upsert(t, db_ok)
    \/ \E since \in Cursors : get_sync_state(t, since)
    \/ get_sync_state_query(t)

FileNext ==
    \/ TickMs
    \/ \E t \in Threads : Return(t) \/ FileRequests(t)

\* the FileService and the SyncService called from one thread; the database starts
\* empty and files_root holds the files found there
FileSpec == InitSeq /\ [][FileNext]_vars

\* put_file and delete_file on the request threads at once; every store call succeeds
\* and no client sends an mtime
MTFileNext ==
    \/ TickMs
    \/ \E t \in Threads :
         \/ Return(t)
         \/ \E path \in Paths, content \in Contents : put_file(t, path, content, {}, TRUE)
         \/ put_file_write(t, TRUE)
         \/ put_file_build_metadata(t)
         \/ put_file_upsert(t, TRUE)
         \/ \E path \in Paths : delete_file(t, path, TRUE)
         \/ delete_file_mark(t, TRUE)

\* the FileService called from a pool of request threads (multithreaded = true)
MTFileSpec == InitMT /\ [][MTFileNext]_vars

\* upsert_note called on the request threads at once
MTNoteNext ==
    \/ TickMs
    \/ \E t \in Threads :
         \/ Return(t)
         \/ \E id \in NoteIds, title \in Titles, tag_list \in TagLists :
              upsert_note(t, id, title, tag_list)
         \/ set_note_tags_delete(t)
         \/ set_note_tags_link(t)

\* the Metadata Store's notes called from a pool of request threads
MTNoteSpec == InitMT /\ [][MTNoteNext]_vars

\* a response other than the sync state's is sent
respond(t) == Return(t) /\ req[t].op # "get_sync_state"

\* a client polling the sync state between the writes and deletes of files, one
\* request at a time; every store call succeeds
CursorNext ==
    \/ TickMs
    \/ \E t \in Threads :
         \/ respond(t)
         \/ \E path \in Paths : put_file(t, path, <<104, 105>>, {}, TRUE)
         \/ put_file_write(t, TRUE)
         \/ put_file_build_metadata(t)
         \/ put_file_upsert(t, TRUE)
         \/ \E path \in Paths : delete_file(t, path, TRUE)
         \/ delete_file_mark(t, TRUE)
         \/ poll(t)
         \/ get_sync_state_query(t)
         \/ poll_receive(t)

\* the SyncService and the FileService behind a polling client
CursorSpec == InitSeq /\ [][CursorNext]_vars

\* the NoteService's interface
NoteRequests(t) ==
    \/ \E id \in NoteIds : get_note(t, id)
    \/ \E title \in Titles, content \in Bodies, tag_list \in TagLists, write_ok \in BOOLEAN :
         create_note(t, title, content, tag_list, write_ok)
    \/ \E db_ok \in BOOLEAN : create_note_upsert(t, db_ok)
    \/ \E db_ok \in BOOLEAN : create_note_fts(t, db_ok)
    \/ \E id \in NoteIds, u \in UpdateRequests : update_note(t, id, u.title, u.tags, u.content)
    \/ \E write_ok \in BOOLEAN : update_note_write(t, write_ok)
    \/ \E db_ok \in BOOLEAN : update_note_upsert(t, db_ok)
    \/ \E db_ok \in BOOLEAN : update_note_fts(t, db_ok)
    \/ \E id \in NoteIds : delete_note(t, id)
    \/ \E remove_ok \in BOOLEAN : delete_note_remove(t, remove_ok)
    \/ \E db_ok \in BOOLEAN : delete_note_mark(t, db_ok)
    \/ \E options \in ListOptions : list_notes(t, options)
    \/ get_tags(t)
    \/ \E list_ok \in BOOLEAN : note_scan_and_index(t, list_ok)
    \/ \E db_ok \in BOOLEAN : note_scan_upsert(t, db_ok)
    \/ \E db_ok \in BOOLEAN : note_scan_fts(t, db_ok)

NoteNext ==
    \/ TickMs
    \/ \E t \in Threads : Return(t) \/ NoteRequests(t)

\* the NoteService called from one thread, over an empty database
NoteSpec == InitSeq /\ [][NoteNext]_vars

\* notes are created and deleted, files_root is scanned and a client polls the sync
\* state; every store call succeeds
NoteSyncNext ==
    \/ TickMs
    \/ \E t \in Threads :
         \/ Return(t)
         \/ \E title \in Titles, content \in Bodies : create_note(t, title, content, {}, TRUE)
         \/ create_note_upsert(t, TRUE)
         \/ create_note_fts(t, TRUE)
         \/ \E id \in NoteIds : delete_note(t, id)
         \/ delete_note_remove(t, TRUE)
         \/ delete_note_mark(t, TRUE)
         \/ scan_and_index(t, TRUE)
         \/ scan_and_index_read(t)
         \/ scan_and_index_upsert(t, TRUE)
         \/ \E since \in Cursors : get_sync_state(t, since)
         \/ get_sync_state_query(t)

\* the NoteService, the FileService's scan and the SyncService behind one server
NoteSyncSpec == InitSeq /\ [][NoteSyncNext]_vars

\* ------------------------------------------------------------ properties
Done(t, op) == pc[t] = "done" /\ req[t].op = op

\* the create_challenge calls that stored challenge ch
CreatedFor(ch) == {c \in created : c.challenge = ch}
\* the verify_challenge calls that issued a token for challenge ch
IssuedFor(ch) == {i \in issued : i.challenge = ch}

C3_TokenOnlyAfterValidChallenge ==
    /\ \A r \in auth_tokens : \E i \in issued : i.token = r.token
    /\ Cardinality(issued) = generated.tokens
    /\ \A i \in issued :
         /\ i.signature = "good"
         /\ i.live
         /\ \E c \in CreatedFor(i.challenge) :
              c.public_key = i.public_key /\ c.at <= i.checked_at /\ i.checked_at < c.expires_at
    /\ \A t \in Threads :
         Done(t, "verify_challenge") =>
            /\ ret[t].ok <=> (req[t].pre /\ req[t].signature = "good")
            /\ ret[t].ok <=> \E i \in IssuedFor(req[t].challenge) : i.token = ret[t].token
            /\ ~ret[t].ok => ret[t].token = 0 /\ ret[t].error # "none"

\* a verify_challenge with a forged signature on a live challenge failed, no token stored
C3_Witness ==
    \E t \in Threads :
        /\ Done(t, "verify_challenge") /\ req[t].pre /\ req[t].signature = "forged"
        /\ ret[t].error = "Signature verification failed"
        /\ auth_tokens = {}

\* C4: validate_token(t) is true exactly when a row t exists with now < expires_at,
\* and false (a value) for an unknown token or one with expires_at <= now.
C4_ValidateToken ==
    \A t \in Threads :
        req[t].valid_header # "unset" =>
            /\ req[t].valid_header = "true" <=> req[t].pre
            /\ req[t].valid_header = "false" =>
                 \A r \in auth_tokens : r.token = req[t].header[2] => r.expires_at <= req[t].at

\* validate_token answered false for a stored token in the very second it expires
C4_Witness ==
    \E t \in Threads :
        /\ req[t].valid_header = "false"
        /\ \E r \in auth_tokens : r.token = req[t].header[2] /\ r.expires_at = req[t].at

\* C5: a challenge created at t expires at t + challenge_expiry and no verify_challenge
\* at or after that time gets a token; a token issued at t expires at t + token_expiry
\* and validates only before that time.
C5_Expiry ==
    /\ \A c \in created : c.expires_at = c.at + challenge_expiry
    /\ \A r \in auth_challenges :
         \E c \in CreatedFor(r.challenge) : r.expires_at = c.at + challenge_expiry
    /\ \A i \in issued :
         /\ \A c \in CreatedFor(i.challenge) : i.checked_at < c.at + challenge_expiry
         /\ i.expires_at = i.at + token_expiry
         /\ \A r \in auth_tokens : r.token = i.token => r.expires_at = i.at + token_expiry
    /\ \A t \in Threads :
         /\ Done(t, "verify_challenge") /\ ret[t].ok =>
                \A c \in CreatedFor(req[t].challenge) : req[t].at < c.at + challenge_expiry
         /\ req[t].valid_header = "true" =>
                \E i \in issued : i.token = req[t].header[2] /\ req[t].at < i.at + token_expiry

\* a verify_challenge with the right key and a correct signature, made in the second
\* the challenge expires and with its row still stored, has failed
C5_Witness ==
    \E t \in Threads :
        /\ Done(t, "verify_challenge") /\ ~ret[t].ok /\ req[t].signature = "good"
        /\ \E r \in auth_challenges :
             /\ r.challenge = req[t].challenge /\ r.public_key = req[t].public_key
             /\ r.expires_at = req[t].at

\* C6: create_challenge(K) stores a row only if K is authorized when it is called; for
\* an unauthorized key, well-formed or not, it fails with 'Key not authorized' and
\* stores nothing.
C6_CreateRequiresAuthorizedKey ==
    /\ \A c \in created : c.authorized
    /\ Cardinality(created) = generated.challenges
    /\ \A r \in auth_challenges :
         \E c \in CreatedFor(r.challenge) : c.public_key = r.public_key /\ c.authorized
    /\ \A t \in Threads :
         /\ Done(t, "create_challenge") /\ ~req[t].pre =>
                /\ ret[t].error = "Key not authorized"
                /\ \A c \in created : c.challenge # ret[t].token
         /\ Done(t, "create_challenge") /\ ret[t].ok => req[t].pre

\* an unauthorized key that is also malformed was refused as not authorized, while a
\* challenge of an authorized key is stored
C6_Witness ==
    \E t \in Threads :
        /\ Done(t, "create_challenge") /\ req[t].public_key = "bad" /\ ~req[t].pre
        /\ ret[t].error = "Key not authorized"
        /\ auth_challenges # {}

\* C7: a sync, file or note handler runs only in a request whose authenticate()
\* succeeded, that is whose Bearer token validate_token accepted; a request with a
\* missing, malformed, unknown or expired token gets an error; only the two auth
\* routes are served without a token.
C7_AccessGate ==
    /\ \A route \in AuthRoutes \cup ServiceRoutes :
         route_authenticates(route) <=> route \notin AuthRoutes
    /\ \A t \in Threads :
         req[t].op \in ServiceRoutes =>
            /\ pc[t] = "handler" \/ (pc[t] = "done" /\ ret[t].ok) =>
                 /\ req[t].valid_header = "true"
                 /\ req[t].pre
                 /\ authenticate_header(req[t].header) = ""
            /\ pc[t] = "done" /\ ~req[t].pre => ~ret[t].ok

\* a file request presenting a token that was issued and has expired was refused
C7_Witness ==
    \E t \in Threads :
        /\ Done(t, "PUT /api/v1/files") /\ ~ret[t].ok
        /\ ret[t].error = "Invalid or expired token"
        /\ \E i \in issued : i.token = req[t].header[2]

\* C8: single use under concurrency. When request threads call verify_challenge
\* concurrently with the same valid challenge, key and signature, at most one of them
\* obtains a token.
C8_SingleUseConcurrent ==
    \A i, j \in issued : i.challenge = j.challenge => i.token = j.token

\* the put_file / delete_file that last returned success on the path of request t,
\* as the request found it when it was called
After(t, op) == {w \in req[t].seen : w.op = op}

\* C9: put/get round trip. A put_file(p, b) that returns success returns and stores
\* metadata with size = length of b and a non-empty hash of b; as long as no later
\* put_file or delete_file of p was called, the content store holds b under p, the
\* row of p describes b, and get_file(p) returns exactly b.
C9_PutGetRoundTrip ==
    /\ \A t \in Threads :
         Done(t, "put_file") /\ ret[t].ok =>
            /\ ret[t].data.size = Len(req[t].content)
            /\ ret[t].data.hash = hash_bytes(req[t].content)
            /\ ret[t].data.hash # <<>>
            /\ \E r \in files : /\ r.path = req[t].path /\ ~r.is_deleted
                                /\ r.size = ret[t].data.size /\ r.hash = ret[t].data.hash
    /\ \A p \in Paths :
         last_write[p].op = "put_file" =>
            /\ \E f \in m_Fs : f.path = p /\ f.content = last_write[p].content
            /\ \E r \in files : /\ r.path = p /\ ~r.is_deleted
                                /\ r.size = Len(last_write[p].content)
                                /\ r.hash = hash_bytes(last_write[p].content)
                                /\ r.hash # <<>>
    /\ \A t \in Threads :
         Done(t, "get_file") =>
            \A w \in After(t, "put_file") : ret[t].ok /\ ret[t].data = w.content

\* get_file returned the bytes of a put_file that had replaced an earlier version
C9_Witness ==
    \E t \in Threads :
        /\ Done(t, "get_file") /\ ret[t].ok /\ ret[t].data = <<104, 105>>
        /\ \E w \in After(t, "put_file") : w.had_record /\ w.content = <<104, 105>>

\* C10 as stated: for all paths p, after delete_file(p) returned success (and before
\* p is written or indexed again) get_file(p) fails with not-found and list_files()
\* includes a record for p with is_deleted = true.
C10_DeleteLeavesTombstone ==
    /\ \A t \in Threads :
         Done(t, "get_file") =>
            \A w \in After(t, "delete_file") :
                ~w.rescanned => ~ret[t].ok /\ ret[t].error = "File not found"
    /\ \A t \in Threads :
         Done(t, "list_files") =>
            \A s \in req[t].seen :
                s.last.op = "delete_file" /\ ~s.last.rescanned =>
                    \E r \in ret[t].data : r.path = s.path /\ r.is_deleted

\* C10, amended: for all paths p that have a record when delete_file(p) is called,
\* after delete_file(p) returned success and before p is written or indexed again,
\* get_file(p) fails with not-found and list_files() includes the record of p with
\* is_deleted = true; for a path without a record get_file(p) fails just the same.
C10_DeleteTombstonesIndexedPath ==
    /\ \A t \in Threads :
         Done(t, "get_file") =>
            \A w \in After(t, "delete_file") :
                ~w.rescanned => ~ret[t].ok /\ ret[t].error = "File not found"
    /\ \A t \in Threads :
         Done(t, "list_files") =>
            \A s \in req[t].seen :
                s.last.op = "delete_file" /\ ~s.last.rescanned /\ s.last.had_record =>
                    \E r \in ret[t].data : r.path = s.path /\ r.is_deleted
    /\ \A p \in Paths :
         /\ last_write[p].op = "delete_file"
         /\ ~last_write[p].rescanned /\ last_write[p].had_record
         => \E r \in files : r.path = p /\ r.is_deleted

\* list_files returned the tombstone of a deleted path whose bytes the content store
\* still holds, the removal having failed
C10_Witness ==
    \E t \in Threads :
        /\ Done(t, "list_files")
        /\ \E s \in req[t].seen :
             /\ s.last.op = "delete_file" /\ ~s.last.rescanned /\ s.last.had_record
             /\ \E r \in ret[t].data : r.path = s.path /\ r.is_deleted
             /\ fs_entry(m_Fs, s.path) # {}

\* C11: delta exactness. get_sync_state(T).files is exactly the set of file records
\* with updated_at > T, tombstoned ones included; without a cursor it is the set of
\* all file records, tombstoned ones included.
C11_DeltaExactness ==
    \A t \in Threads :
        Done(t, "get_sync_state") =>
            /\ ret[t].ok
            /\ \A r \in req[t].seen :
                 r \in ret[t].data.files
                    <=> \A T \in req[t].since : r.updated_at > T
            /\ ret[t].data.files \subseteq req[t].seen

\* a poll returned a tombstoned record and left out a record whose updated_at equals
\* the cursor
C11_Witness ==
    \E t \in Threads :
        /\ Done(t, "get_sync_state")
        /\ \E r \in req[t].seen : r.is_deleted /\ r \in ret[t].data.files
        /\ \E r \in req[t].seen : req[t].since = {r.updated_at} /\ r \notin ret[t].data.files

\* C16: write-then-index. put_file touches the index only after the content write
\* succeeded; when the content write fails put_file returns an error and every
\* metadata record, the one of its path included, is as it was before the call.
C16_WriteThenIndex ==
    \A t \in Threads :
        req[t].op = "put_file" =>
            /\ "upsert_file" \notin req[t].called => files = req[t].seen
            /\ "upsert_file" \in req[t].called => "write" \in req[t].called \ req[t].failed
            /\ "write" \in req[t].failed =>
                 /\ pc[t] = "done" /\ ~ret[t].ok /\ ret[t].error # "none"
                 /\ files = req[t].seen

\* a put_file on a path that has a record failed on the content write, beside the
\* record of another path
C16_Witness ==
    \E t \in Threads :
        /\ Done(t, "put_file") /\ "write" \in req[t].failed
        /\ \E r \in files : r.path = req[t].path /\ r.hash # hash_bytes(req[t].content)
        /\ \E r \in files : r.path # req[t].path

\* C17: created_at is write-once. No step changes the created_at of an existing
\* record or removes the record; a put_file upsert stores and returns the hash and
\* size of the new bytes, the mtime of the write, a fresh updated_at, is_deleted =
\* false and the original created_at; a scan_and_index upsert refreshes the same
\* fields from the stored bytes.
C17_CreatedAtWriteOnce ==
    [][/\ \A r \in files : \E n \in files' : n.path = r.path /\ n.created_at = r.created_at
       /\ \A t \in Threads :
            pc[t] = "pf_upsert" /\ ret'[t].ok =>
                /\ \E n \in files' :
                     /\ n.path = req[t].path
                     /\ n.hash = hash_bytes(req[t].content) /\ n.size = Len(req[t].content)
                     /\ ~n.is_deleted
                     /\ n.updated_at >= req[t].at
                     /\ n.mtime \in req[t].client_mtime
                          \/ (req[t].client_mtime = {} /\ n.mtime >= req[t].at)
                     /\ \A r \in files : r.path = n.path => n.updated_at >= r.updated_at
                /\ \A r \in files :
                     r.path = req[t].path => ret'[t].data.created_at = r.created_at
       /\ \A t \in Threads :
            pc[t] = "scan_upsert" /\ files' # files =>
                \E n \in files', f \in m_Fs :
                    /\ n.path = req[t].path /\ f.path = n.path
                    /\ n.mtime = f.mtime /\ ~n.is_deleted
                    /\ \A r \in files : r.path = n.path => n.updated_at >= r.updated_at
      ]_vars

\* C18: delete_file attempts the tombstone write whether or not the physical
\* removal succeeded, and returns an error exactly when the tombstone write fails.
C18_DeleteBestEffort ==
    \A t \in Threads :
        Done(t, "delete_file") =>
            /\ "mark_deleted" \in req[t].called
            /\ ret[t].ok <=> "mark_deleted" \notin req[t].failed
            /\ ret[t].ok /\ req[t].pre =>
                 \E r \in files : r.path = req[t].path /\ r.is_deleted
                                   /\ r.updated_at >= req[t].at

\* a delete_file whose physical removal failed returned success and left a tombstone
C18_Witness ==
    \E t \in Threads :
        /\ Done(t, "delete_file") /\ "remove" \in req[t].failed /\ ret[t].ok
        /\ fs_entry(m_Fs, req[t].path) # {}
        /\ \E r \in files : r.path = req[t].path /\ r.is_deleted

\* the paths a finished scan_and_index listed and neither failed to read nor to upsert
Indexed(t) == req[t].seen \ req[t].failed

\* C20: repair. When scan_and_index completes, every path of the content store whose
\* read and upsert did not fail has a record with the hash and size of the stored
\* bytes, and the returned count is the number of those paths.
C20_ScanRepairs ==
    \A t \in Threads :
        Done(t, "scan_and_index") /\ ret[t].ok =>
            /\ ret[t].data = Cardinality(Indexed(t))
            /\ \A f \in m_Fs :
                 /\ f.path \in req[t].seen
                 /\ f.path \in Indexed(t) =>
                      \E r \in files : /\ r.path = f.path
                                        /\ r.hash = hash_bytes(f.content)
                                        /\ r.size = Len(f.content)

\* a scan indexed two paths, one of them left with a stale record by a put_file
\* whose upsert had failed
C20_Witness ==
    \E t \in Threads :
        /\ Done(t, "scan_and_index") /\ ret[t].ok /\ ret[t].data = Cardinality(AllPaths)
        /\ \E p \in Paths :
             /\ last_write[p].op = "failed" /\ last_write[p].had_record
             /\ last_write[p].rescanned
             /\ \E f \in m_Fs : f.path = p /\ f.content = last_write[p].content


\* ------------------------------------------------------------ notes
Settled(t) == pc[t] \in {"idle", "done"}
Completed(t, op) == pc[t] = "done" /\ req[t].op = op

\* the notes that carry tag `name` and are not tombstoned
LiveTagged(name) == {r \in notes : ~r.is_deleted /\ name \in linked_tags(note_tags, r.id)}

\* C12: tag counts. get_tags reports for each tag the number of non-tombstoned notes
\* tagged with it and omits the tags whose count is 0, so a tag whose notes are all
\* tombstoned is not reported.
C12_TagCounts ==
    \A t \in Threads :
        Completed(t, "get_tags") =>
            ret[t].data = {info \in {[name |-> name, count |-> Cardinality(LiveTagged(name))]
                                       : name \in tags} : info.count > 0}

C14_TagsReplaced ==
    \A t \in Threads :
        pc[t] \in {"cn_fts", "un_fts", "ns_fts"} =>
            \A m \in req[t].meta :
                \A r \in meta_get_note(notes, note_tags, m.id) : r.tags = m.tags

\* what C15 says of a tombstoned note and of get_note, update_note and the members
\* of the listings
TombstonedInvisible ==
    \A t \in Threads :
        /\ Completed(t, "get_note") /\ (\A r \in notes : r.id = req[t].id => r.is_deleted)
               => ret[t].ok /\ ret[t].data = {}
        /\ Completed(t, "update_note") /\ (\A r \in notes : r.id = req[t].id => r.is_deleted)
               => /\ ~ret[t].ok
                  /\ ret[t].error = "Note not found"
                  /\ req[t].seen = {NotesNow}
        /\ Completed(t, "list_notes")
               => \A i \in 1..Len(ret[t].data) :
                      \E r \in notes : r.id = ret[t].data[i].id /\ ~r.is_deleted

\* the listings of the given kinds come ordered by updated_at descending
ListedByUpdatedAt(kinds) ==
    \A t \in Threads :
        Completed(t, "list_notes") /\ (\E o \in req[t].since : o.kind \in kinds)
            => \A i, j \in 1..Len(ret[t].data) :
                   i < j => ret[t].data[i].updated_at >= ret[t].data[j].updated_at

\* C15 as stated: a tombstoned note is invisible to get_note, update_note and every
\* listing, and every listing, search results included, is ordered by updated_at
\* descending.
C15_TombstonedInvisibleAllOrdered ==
    TombstonedInvisible /\ ListedByUpdatedAt({"all", "tag", "search"})

\* C15: a tombstoned note is invisible to get_note, update_note (which fails with
\* 'Note not found' and changes nothing) and every listing; get_all_notes and
\* get_notes_by_tag are ordered by updated_at descending, search_notes by rank.
C15_TombstonedInvisible ==
    TombstonedInvisible /\ ListedByUpdatedAt({"all", "tag"})

C15_Witness ==
    \E t \in Threads :
        /\ Completed(t, "list_notes")
        /\ \E o \in req[t].since : o.kind = "all"
        /\ Len(ret[t].data) = 1
        /\ \E r \in notes : r.is_deleted

\* C19: note delete is best-effort on the content store. A delete_note whose removal
\* from the content store failed still goes on to write the tombstone.
C19_NoteDeleteBestEffort ==
    \A t \in Threads :
        Completed(t, "delete_note") /\ "remove" \in req[t].failed
            => "delete_note" \in req[t].called

C25_ExpiredChallengeDestroyed ==
    \A ch \in Challenges :
        (\E r \in auth_challenges : r.challenge = ch /\ r.expires_at <= now_s)
            ~> (\A r \in auth_challenges : r.challenge # ch)

\* a token row leaves the table in this step
TokenRowRemoved == \E r \in auth_tokens : \A x \in auth_tokens' : x.token # r.token

\* C26: tokens are destroyed only by the sweep, and the sweep removes no usable
\* token. A step that removes a token row is a cleanup_expired step, and a row that
\* validate_token accepts is still stored, with the same expires_at, after any step.
C26_TokensOnlySwept ==
    [][/\ TokenRowRemoved => cleanup_expired
       /\ \A r \in auth_tokens :
            validate_token_select(auth_tokens, r.token, now_s) =>
                \E x \in auth_tokens' : x.token = r.token /\ x.expires_at = r.expires_at]_vars

\* a token validates although its key is no longer in the authorized set
C26_Witness ==
    \E t \in Threads, i \in issued :
        /\ req[t].valid_header = "true"
        /\ req[t].header[2] = i.token
        /\ i.public_key \notin m_AuthorizedKeys
        /\ validate_token_select(auth_tokens, i.token, now_s)

\* C30: the file index only grows. No step of the FileService or SyncService removes
\* a row of the files table: a path that has a record has one after every step.
C30_IndexOnlyGrows ==
    [][\A r \in files : \E x \in files' : x.path = r.path]_vars

\* a delete_file has returned success and the path's row is still there, tombstoned
C30_Witness ==
    \E t \in Threads :
        /\ pc[t] = "done" /\ req[t].op = "delete_file" /\ ret[t].ok
        /\ \E r \in files : r.path = req[t].path /\ r.is_deleted

\* the path of a note's file as a sync record would carry it
NoteFileName(id) ==
    CASE id = "n0" -> "n0.md" [] id = "n1" -> "n1.md" [] id = "n2" -> "n2.md"
      [] id = "n3" -> "n3.md" [] id = "n4" -> "n4.md"

\* C27: notes are included in the sync state. A full get_sync_state (no since) holds
\* a record for the file of every note the NoteService has stored, tombstoned notes
\* included.
C27_NotesInSyncState ==
    \A t \in Threads :
        Completed(t, "get_sync_state") /\ ret[t].ok /\ req[t].since = {} =>
            \A r \in notes : \E f \in ret[t].data.files : f.path = NoteFileName(r.id)

\* ------------------------------------------------------------ concurrency
\* C23: atomic key reload. Every answer of is_authorized(K) is membership of K in a
\* complete key set, the old or the new one, never in a partly replaced vector.
C23_AtomicReload ==
    \A t \in Threads :
        Completed(t, "is_authorized") =>
            \E keys \in req[t].seen : ret[t].value = (req[t].public_key \in keys)

\* is_authorized has answered no from the old set for a key of the new set, and the
\* reloading thread holds the lock with the new set read but not yet assigned
C23_Witness ==
    \E t \in Threads :
        /\ Completed(t, "is_authorized")
        /\ ~ret[t].value
        /\ reload.pc = "assign"
        /\ req[t].public_key \in reload.value

\* C21: last writer wins by updated_at. With put_file and delete_file running on
\* several threads, the stored updated_at of a path never decreases.
C21_UpdatedAtNeverDecreases ==
    [][\A r \in files : \A x \in files' : x.path = r.path => x.updated_at >= r.updated_at]_vars

\* C22: index matches content after concurrent puts. When two threads have both
\* returned success from put_file on one path with different bytes, the path's record
\* carries the hash and the size of the bytes the content store holds.
C22_IndexMatchesContent ==
    \A t, u \in Threads :
        /\ Completed(t, "put_file") /\ ret[t].ok
        /\ Completed(u, "put_file") /\ ret[u].ok
        /\ req[t].path = req[u].path
        /\ req[t].content # req[u].content
        => \E r \in files, f \in m_Fs :
               /\ r.path = req[t].path
               /\ f.path = req[t].path
               /\ r.hash = hash_bytes(f.content)
               /\ r.size = Len(f.content)

\* C29: concurrent note updates do not mix tags. When two threads have both finished
\* upsert_note for one note id, with tag sets A and B, the note's tag associations
\* are exactly A or exactly B.
C29_TagsNotMixed ==
    \A t, u \in Threads :
        /\ t # u
        /\ Completed(t, "upsert_note")
        /\ Completed(u, "upsert_note")
        /\ req[t].id = req[u].id
        => \E m \in req[t].meta \cup req[u].meta : linked_tags(note_tags, req[t].id) = m.tags

\* C28: no change is skipped by the cursor protocol. Every record the index held when
\* the client's last poll ran its query has been delivered to the client, in that
\* poll or an earlier one.
C28_NoChangeSkipped ==
    \A r \in client.snapshot : r \in client.got

\* ------------------------------------------------------------ C31
\* the step of delete_file in which mark_deleted returns success
MarkDeletedStep(t) == pc[t] = "df_mark" /\ pc'[t] = "done" /\ ret'[t].ok

\* C31: mark_deleted(p) changes only is_deleted (to true) and updated_at (to now) of
\* the record for p: its hash, size, mtime and created_at and every other record are
\* unchanged, and when no record exists for p it returns success and creates none
C31_MarkDeletedFrame ==
    [][\A t \in Threads :
         /\ pc[t] = "df_mark" /\ meta_get_file(files, req[t].path) = {} => files' = files
         /\ MarkDeletedStep(t) =>
              /\ {r.path : r \in files'} = {r.path : r \in files}
              /\ Cardinality(files') = Cardinality(files)
              /\ \A r \in files : r.path # req[t].path => r \in files'
              /\ \A r \in files : r.path = req[t].path =>
                   \E s \in files' :
                     /\ s.path = r.path /\ s.hash = r.hash /\ s.size = r.size
                     /\ s.mtime = r.mtime /\ s.created_at = r.created_at
                     /\ s.is_deleted /\ s.updated_at = now_ms]_vars

\* a delete_file has tombstoned an indexed path whose record holds a digest, beside
\* the record of another path
C31_Witness ==
    \E t \in Threads :
      /\ Done(t, "delete_file") /\ ret[t].ok /\ req[t].pre
      /\ \E r \in files : r.path = req[t].path /\ r.is_deleted /\ Len(r.hash) > 1
      /\ \E s \in files : s.path # req[t].path

\* ------------------------------------------------------------ C32
\* files and notes are written and deleted and both roots are scanned, one request at
\* a time; the only store call that may fail is the tombstone write, which leaves a
\* live record without content
ScanNext ==
    \/ TickMs
    \/ \E t \in Threads :
         \/ Return(t)
         \/ \E path \in Paths : put_file(t, path, <<104, 105>>, {}, TRUE)
         \/ put_file_write(t, TRUE)
         \/ put_file_build_metadata(t)
         \/ put_file_upsert(t, TRUE)
         \/ \E path \in Paths : delete_file(t, path, TRUE)
         \/ \E db_ok \in BOOLEAN : delete_file_mark(t, db_ok)
         \/ scan_and_index(t, TRUE)
         \/ scan_and_index_read(t)
         \/ scan_and_index_upsert(t, TRUE)
         \/ \E content \in Bodies : create_note(t, "T", content, {}, TRUE)
         \/ create_note_upsert(t, TRUE)
         \/ create_note_fts(t, TRUE)
         \/ \E id \in NoteIds : delete_note(t, id)
         \/ delete_note_remove(t, TRUE)
         \/ \E db_ok \in BOOLEAN : delete_note_mark(t, db_ok)
         \/ note_scan_and_index(t, TRUE)
         \/ note_scan_upsert(t, TRUE)
         \/ note_scan_fts(t, TRUE)

\* the FileService and the NoteService with their repair scans
ScanSpec == InitSeq /\ [][ScanNext]_vars

\* a step of either scan_and_index
ScanStep(t) ==
    /\ req'[t].op \in {"scan_and_index", "note_scan_and_index"}
    /\ pc'[t] # "idle"
    /\ <<pc[t], req[t]>> # <<pc'[t], req'[t]>>

\* C32: scan_and_index never tombstones or removes anything: a record whose content
\* is absent from the content store is left unchanged by the scan, not tombstoned, with
\* its old hash and updated_at (files and notes alike)
C32_ScanNeverTombstones ==
    [][\A t \in Threads : ScanStep(t) =>
         /\ \A r \in files : fs_entry(m_Fs, r.path) = {} => r \in files'
         /\ \A r \in notes : note_file(m_NotesFs, r.path) = {} => r \in notes'
         /\ {r.path : r \in files} \subseteq {r.path : r \in files'}
         /\ {r.id : r \in notes} \subseteq {r.id : r \in notes'}
         /\ \A r \in files' : r.is_deleted => r \in files
         /\ \A r \in notes' : r.is_deleted => r \in notes]_vars

\* a scan of notes_root has indexed a note and finished while a live note record and
\* a live file record have no content behind them, the file scan having run too
C32_Witness ==
    \E t \in Threads :
      /\ Done(t, "note_scan_and_index") /\ ret[t].ok /\ ret[t].data > 0
      /\ \E r \in files : ~r.is_deleted /\ fs_entry(m_Fs, r.path) = {}
      /\ \E r \in files : r.path \notin Paths
      /\ \E r \in notes : ~r.is_deleted /\ note_file(m_NotesFs, r.path) = {}

\* ------------------------------------------------------------ C33
\* put_file alone, one request at a time: the content write and set_mtime may fail,
\* the metadata lookup and the metadata upsert never do
PutNext ==
    \/ TickMs
    \/ \E t \in Threads :
         \/ Return(t)
         \/ \E path \in Paths, content \in Contents, client_mtime \in ClientMtimes :
              put_file(t, path, content, client_mtime, TRUE)
         \/ \E write_ok \in BOOLEAN : put_file_write(t, write_ok)
         \/ \E mtime_ok \in BOOLEAN : put_file_set_mtime(t, mtime_ok)
         \/ put_file_build_metadata(t)
         \/ put_file_upsert(t, TRUE)

\* FileService::put_file over a database whose statements always execute
PutSpec == InitSeq /\ [][PutNext]_vars

\* the path's record describes the bytes the content store holds for it: a live record
\* with their hash and size, or no live record when there are none
IndexDescribesContent(path) ==
    IF fs_entry(m_Fs, path) = {}
      THEN \A r \in meta_get_file(files, path) : r.is_deleted
      ELSE \E r \in meta_get_file(files, path), f \in fs_entry(m_Fs, path) :
             ~r.is_deleted /\ r.hash = hash_bytes(f.content) /\ r.size = Len(f.content)

\* C33: the only put_file failure that leaves content and index disagreeing is a
\* failed metadata upsert: whenever put_file returns an error for any other reason
\* (a failure to apply the client's mtime included) the path's record still describes
\* the bytes the content store holds
C33_OnlyUpsertFailureDiverges ==
    \A t \in Threads :
        Done(t, "put_file") /\ ~ret[t].ok /\ "upsert_file" \notin req[t].failed
            => IndexDescribesContent(req[t].path)

\* ------------------------------------------------------------ C34
\* the last write to the path was a successful delete_file and scan_and_index has
\* upserted the path since: its bytes had outlived the delete
ReactivatedByScan(w) == w.op = "delete_file" /\ w.rescanned

\* C34: scan_and_index re-activates tombstoned paths whose bytes remain. After a
\* delete_file that returned success and a later scan that upserted the path, the
\* record is live, get_file succeeds with the stored bytes and list_files reports the
\* path as a live file, no put_file having been called in between
C34_ScanReactivates ==
    /\ \A p \in Paths : ReactivatedByScan(last_write[p]) =>
         \E r \in files : r.path = p /\ ~r.is_deleted
    /\ \A t \in Threads :
         /\ Done(t, "get_file") /\ (\E w \in req[t].seen : ReactivatedByScan(w)) =>
              /\ ret[t].ok
              /\ \E f \in fs_entry(m_Fs, req[t].path) : ret[t].data = f.content
         /\ Done(t, "list_files") =>
              \A s \in req[t].seen : ReactivatedByScan(s.last) =>
                \E r \in ret[t].data : r.path = s.path /\ ~r.is_deleted

\* get_file succeeded on a path whose record a delete_file had tombstoned while its
\* removal failed, a scan having run since
C34_Witness ==
    \E t \in Threads :
      /\ Done(t, "get_file") /\ ret[t].ok
      /\ \E w \in req[t].seen : ReactivatedByScan(w) /\ w.had_record

\* ------------------------------------------------------------ C35
\* C35: scan_and_index refreshes updated_at unconditionally. The metadata a scan turn
\* builds carries the time of the turn as updated_at; the turn's upsert leaves the
\* path's record with that updated_at whether or not its hash changed, so the record
\* is among those changed since any earlier cursor; and get_sync_state(T) returns
\* every record whose updated_at is later than T
C35_ScanRefreshesUpdatedAt ==
    [][\A t \in Threads :
         /\ pc[t] = "scan_read" /\ pc'[t] = "scan_upsert" =>
              \A m \in req'[t].meta : m.updated_at = now_ms
         /\ pc[t] = "scan_upsert" /\ req'[t].indexed = req[t].indexed + 1 =>
              \A m \in req[t].meta :
                \E r \in files' :
                  /\ r.path = m.path /\ r.updated_at = m.updated_at
                  /\ \A T \in 0..MaxMs : T < m.updated_at => r \in get_changed_since(files', T)
         /\ pc[t] = "sync_query" /\ pc'[t] = "done" =>
              \A T \in req[t].since, r \in files :
                r.updated_at > T => r \in ret'[t].data.files]_vars

\* get_sync_state(T) returned a file that only scans index, first indexed no later
\* than T and unchanged on disk since: a scan after T refreshed its updated_at
C35_Witness ==
    \E t \in Threads :
      /\ Done(t, "get_sync_state") /\ ret[t].ok
      /\ \E T \in req[t].since, r \in ret[t].data.files, f \in FoundFiles :
           /\ r.path = f.path /\ r.hash = hash_bytes(f.content)
           /\ r.created_at <= T /\ T < r.updated_at

\* ------------------------------------------------------------ C36
\* thread t is called with verify_challenge in this step
VerifyCalled(t) == pc[t] = "idle" /\ req'[t].op = "verify_challenge"

\* C36: a verify_challenge that names an existing challenge with a different public
\* key, or an expired one, fails without consuming it: the challenge table is left
\* unchanged; a call that names a non-expired challenge with its own key goes on to
\* consume it, and returns a token when its signature is correct
C36_FailedVerifyKeepsChallenge ==
    [][\A t \in Threads :
         /\ VerifyCalled(t) /\ ~ChallengeLive(req'[t].challenge, req'[t].public_key, now_s) =>
              /\ pc'[t] = "done" /\ ~ret'[t].ok
              /\ auth_challenges' = auth_challenges
         /\ VerifyCalled(t) /\ ChallengeLive(req'[t].challenge, req'[t].public_key, now_s) =>
              pc'[t] = "vc_delete"
         /\ pc[t] = "vc_delete" /\ pc'[t] = "vc_issue" =>
              /\ req[t].pre
              /\ \A r \in auth_challenges' : r.challenge # req[t].challenge
         /\ pc[t] = "vc_issue" /\ pc'[t] = "done" /\ req[t].signature = "good" =>
              ret'[t].ok]_vars

\* a verify_challenge with another key has failed and the challenge it named is
\* still stored, not expired, under the key it was created for
C36_Witness ==
    \E t \in Threads :
      /\ Done(t, "verify_challenge") /\ ~ret[t].ok
      /\ \E r \in auth_challenges :
           /\ r.challenge = req[t].challenge /\ r.public_key # req[t].public_key
           /\ ChallengeLive(r.challenge, r.public_key, now_s)

\* ------------------------------------------------------------ C37
\* C37: authorization is checked only when the challenge is created. A verify_challenge
\* on a live challenge with a correct signature returns a token whether or not the key
\* is in the authorized set when it is called, and every issued token belongs to a
\* key that was authorized when its challenge was created
C37_AuthorizedAtCreationOnly ==
    /\ \A t \in Threads :
         Done(t, "verify_challenge") /\ req[t].pre /\ req[t].signature = "good" =>
            /\ ret[t].ok
            /\ \E i \in IssuedFor(req[t].challenge) : i.token = ret[t].token
    /\ \A i \in issued :
         \E c \in CreatedFor(i.challenge) : c.public_key = i.public_key /\ c.authorized

\* a verify_challenge called after a reload removed its key from the authorized set
\* returned a token, for a challenge created while the key was authorized
C37_Witness ==
    \E t \in Threads :
      /\ Done(t, "verify_challenge") /\ ret[t].ok /\ "unauthorized" \in req[t].seen
      /\ \E c \in CreatedFor(req[t].challenge) : c.public_key = req[t].public_key /\ c.authorized

\* ------------------------------------------------------------ C38
\* the key loads of the server's life, statement by statement, beside the
\* authentication requests; create_challenge asks is_authorized under m_KeysMutex
StartupNext ==
    \/ reload_lock
    \/ \E keys_result \in KeyReads : reload_read(keys_result)
    \/ \E torn \in SUBSET (reload.old \cup reload.value) : reload_assign(torn)
    \/ reload_assigned
    \/ reload_unlock
    \/ \E t \in Threads :
         \/ Return(t)
         \/ \E k \in Keys : lock_guard(m_KeysMutex) /\ create_challenge(t, k)
         \/ create_challenge_store(t)
         \/ \E ch \in Challenges, k \in Keys, sig \in Signatures : verify_challenge(t, ch, k, sig)
         \/ verify_challenge_delete(t)
         \/ verify_challenge_issue(t)

\* the AuthManager from its construction, before any key is loaded
StartupSpec == InitSeq /\ [][StartupNext]_vars

\* no load_authorized_keys has replaced the empty set of the constructor yet
NoKeysLoaded == m_AuthorizedKeys = {} /\ reload.pc # "assigned"

\* C38: a failed key load changes nothing. A load that fails to read the key source
\* returns an error and leaves the authorized set as it was; while no load has
\* succeeded the set is empty, every create_challenge fails with 'Key not authorized'
\* and no challenge and no token exists
C38_FailedLoadChangesNothing ==
    [][/\ reload.pc = "read" /\ reload'.pc = "idle" =>
            /\ reload'.result = "error"
            /\ m_AuthorizedKeys' = m_AuthorizedKeys
       /\ reload'.result = "error" => m_AuthorizedKeys' = m_AuthorizedKeys
       /\ NoKeysLoaded =>
            /\ \A t \in Threads :
                 pc[t] = "idle" /\ req'[t].op = "create_challenge" =>
                    pc'[t] = "done" /\ ret'[t].error = "Key not authorized"
            /\ NoKeysLoaded' =>
                 created' = {} /\ auth_challenges' = {} /\ issued' = {} /\ auth_tokens' = {}]_vars

\* the startup load failed, the set is empty, and a create_challenge for a well-formed
\* key has been refused
C38_Witness ==
    \E t \in Threads :
      /\ reload.result = "error" /\ m_AuthorizedKeys = {}
      /\ Done(t, "create_challenge") /\ parse_public_key(req[t].public_key)
      /\ ret[t].error = "Key not authorized"

\* ------------------------------------------------------------ C39
\* every note record has the path of its id, one record per id and per path, under
\* an id create_note generated or the name of a file found in notes_root
NoteIdentity ==
    /\ \A r \in notes : r.path = note_path(r.id) /\ r.id \in AllNoteIds
    /\ \A r, s \in notes : r.id = s.id \/ r.path = s.path => r = s

\* C39: note identity. Every note record NoteService writes (create_note, update_note,
\* scan_and_index) has path = id + ".md"; a record's id and path never change, and a
\* scan indexes an on-disk note under the id create_note gave it, never adding a
\* second record for the note
C39_NoteIdentity ==
    [][/\ NoteIdentity'
       /\ \A r \in notes : \E s \in notes' : s.id = r.id /\ s.path = r.path
       /\ \A t \in Threads :
            pc[t] = "ns_turn" /\ pc'[t] = "ns_fts" =>
               \A m \in req'[t].meta :
                 (\E r \in notes : r.path = m.path) =>
                     Cardinality(notes') = Cardinality(notes)]_vars

\* a scan has indexed again the note create_note made, beside the note found in
\* notes_root: two records, the created note's rewritten after its creation
C39_Witness ==
    \E t \in Threads :
      /\ Done(t, "note_scan_and_index") /\ ret[t].ok /\ ret[t].data = 2
      /\ Cardinality(notes) = 2
      /\ \E r \in notes : r.id = NoteIdPool[1] /\ r.created_at < r.updated_at

====
